---- MODULE Spec2Model ----
(***************************************************************************)
(* A model of the mock Gemini server: the response assembler               *)
(* (MockGeminiService.generateContent and its helpers), the context cache  *)
(* (ContextCachingService) and the batch job service                       *)
(* (BatchProcessingService), with the HTTP routes in front of them.        *)
(*                                                                         *)
(* Text is a sequence of one-character strings.  Canned texts of the       *)
(* repository are abbreviated to short texts that keep the features the    *)
(* code looks at (keywords, contractions, spaces); the abbreviations are   *)
(* named where they are defined.                                           *)
(***************************************************************************)
EXTENDS Integers, Sequences, FiniteSets, TLC

(***************************************************************************)
(* Bounds of the model.                                                    *)
(***************************************************************************)
MaxTime == 2              \* the clock runs 0..MaxTime
MaxCacheIds == 2          \* cache ids cache-1..cache-MaxCacheIds
MaxJobs == 2              \* batch jobs batch-job-1..batch-job-MaxJobs
MaxTextLen == 24          \* longest response text kept in the preset table
MaxParts == 4             \* most parts kept in one stored response
MaxBilledTokens == 4      \* most cache tokens added up in one stored usage record
MaxRequests == 2          \* most requests served by the generation routes in one run
MaxBatchRequests == 3     \* most requests in one batch job
SmallInputTokenLimit == 8 \* inputTokenLimit of text-embedding-004, scaled down from 3072
maxConcurrentRequests == 2 \* BatchProcessingService constructor argument (default 10)

(***************************************************************************)
(* Optional values: <<>> is "absent", <<x>> is "present with value x".     *)
(***************************************************************************)
Absent == <<>>
Some(x) == <<x>>
\* `const x = v; ... x ...`: the value of F for the one value v
Bind(v, F(_)) == F(v)
Undefined == -1           \* a numeric field that is not set (JS undefined)

(***************************************************************************)
(* Text helpers (String.prototype methods the code uses).                  *)
(***************************************************************************)
Rep(c, n) == [i \in 1..n |-> c]

LowerChar(c) ==
  CASE c = "H" -> "h"
    [] c = "I" -> "i"
    [] c = "A" -> "a"
    [] OTHER -> c

toLowerCase(t) == [i \in 1..Len(t) |-> LowerChar(t[i])]

includes(t, s) ==
  \E i \in 0..(Len(t) - Len(s)) : SubSeq(t, i + 1, i + Len(s)) = s

RECURSIVE join(_, _)
join(texts, sep) ==
  IF Len(texts) = 0 THEN <<>>
  ELSE IF Len(texts) = 1 THEN texts[1]
  ELSE texts[1] \o sep \o join(Tail(texts), sep)

isWhitespace(c) == c \in {" ", "\n"}

\* the positions of t that hold no whitespace
inked(t) == {i \in 1..Len(t) : ~isWhitespace(t[i])}

trimStart(t) ==
  IF inked(t) = {} THEN <<>>
  ELSE SubSeq(t, CHOOSE i \in inked(t) : \A j \in inked(t) : i <= j, Len(t))

trimEnd(t) ==
  IF inked(t) = {} THEN <<>>
  ELSE SubSeq(t, 1, CHOOSE i \in inked(t) : \A j \in inked(t) : j <= i)

\* the k-th smallest element of a set of numbers
nth(S, k) == CHOOSE i \in S : Cardinality({j \in S : j < i}) = k - 1

\* t.split(sep) for a set of one-character separators: the pieces between
\* consecutive separator positions (empty pieces included)
splitAt(t, seps) ==
  LET cuts == {i \in 1..Len(t) : t[i] \in seps}
      from(k) == IF k = 1 THEN 1 ELSE nth(cuts, k - 1) + 1
      to(k) == IF k = Cardinality(cuts) + 1 THEN Len(t) ELSE nth(cuts, k) - 1
  IN [k \in 1..(Cardinality(cuts) + 1) |-> SubSeq(t, from(k), to(k))]

trim(t) == trimEnd(trimStart(t))

Count(t, c) == Cardinality({i \in 1..Len(t) : t[i] = c})

(***************************************************************************)
(* Parts, contents, responses.                                             *)
(* A part is [kind, text]: kind "text" carries text; "code" is an          *)
(* executableCode part (text is the code); "result" a codeExecutionResult  *)
(* part; "thought" a reasoning part.  Only kind "text" has a `text` key.   *)
(***************************************************************************)
TextPart(t) == [kind |-> "text", text |-> t]
CodePart(c) == [kind |-> "code", text |-> c]
ResultPart == [kind |-> "result", text |-> <<>>]
ThoughtPart == [kind |-> "thought", text |-> <<>>]

isTextPart(part) == part.kind = "text"

Content(role, parts) == [role |-> role, parts |-> parts]

UsageMetadata(p, c, t) ==
  [promptTokenCount |-> p, candidatesTokenCount |-> c, totalTokenCount |-> t,
   cachedContentTokenCount |-> Undefined]

\* a GenerateContentResponse with one candidate
Response(parts, usage) ==
  [parts |-> parts, usageMetadata |-> usage, groundingMetadata |-> FALSE]

(***************************************************************************)
(* Token estimator.                                                        *)
(***************************************************************************)
\* an estimator that divides by three
estimateTokensByThree(text) == (Len(text) + 2) \div 3

\* an estimator that rounds down
estimateTokensFloor(text) == Len(text) \div 4

estimateTokens(text) == (Len(text) + 3) \div 4

extractTextFromContent(content) ==
  join([i \in 1..Len(content.parts) |->
          IF isTextPart(content.parts[i]) THEN content.parts[i].text ELSE <<>>],
       <<" ">>)

extractTextFromContents(contents) ==
  join([i \in 1..Len(contents) |-> extractTextFromContent(contents[i])], <<" ">>)

extractTextFromResponse(response) ==
  LET texts == SelectSeq(response.parts, isTextPart)
  IN join([i \in 1..Len(texts) |-> texts[i].text], <<" ">>)

(***************************************************************************)
(* Model catalog (getBaseModelDefinitions): two of its entries.            *)
(***************************************************************************)
BigInputTokenLimit == 1048576
MultimodalInputTokenLimit == 2048
BigOutputTokenLimit == 8192
SmallOutputTokenLimit == 1

ModelNames == {"gemini-1.5-pro", "text-embedding-004"}

getModelByName(modelName) ==
  IF modelName = "gemini-1.5-pro"
    THEN Some([inputTokenLimit |-> BigInputTokenLimit,
               outputTokenLimit |-> BigOutputTokenLimit])
  ELSE IF modelName = "text-embedding-004"
    THEN Some([inputTokenLimit |-> SmallInputTokenLimit,
               outputTokenLimit |-> SmallOutputTokenLimit])
  ELSE IF modelName \in {"multimodalembedding@001", "text-multilingual-embedding-002"}
    THEN Some([inputTokenLimit |-> MultimodalInputTokenLimit,
               outputTokenLimit |-> SmallOutputTokenLimit])
  ELSE Absent

(***************************************************************************)
(* Literal texts.  W_* are keywords the code searches for; the canned      *)
(* texts are abbreviations of the repository's strings.                    *)
(***************************************************************************)
W_system == <<"s","y","s","t","e","m">>
W_formal == <<"f","o","r","m","a","l">>
W_professional == <<"p","r","o","f","e","s","s","i","o","n","a","l">>
W_concise == <<"c","o","n","c","i","s","e">>
W_brief == <<"b","r","i","e","f">>
W_technical == <<"t","e","c","h","n","i","c","a","l">>
W_detailed == <<"d","e","t","a","i","l","e","d">>
W_helpful == <<"h","e","l","p","f","u","l">>
W_assist == <<"a","s","s","i","s","t">>
W_help == <<"h","e","l","p">>
W_implementation == <<"i","m","p","l","e","m","e","n","t","a","t","i","o","n">>
W_comprehensive == <<"c","o","m","p","r","e","h","e","n","s","i","v","e">>
W_thorough == <<"t","h","o","r","o","u","g","h">>
W_hello == <<"h","e","l","l","o">>
W_py == <<"p","y">>

\* '\n\nIs there anything specific ... help you with?' (makeMoreHelpful)
HelpfulSuffix == <<"\n","\n","h","e","l","p","?">>
\* '\n\nNote: I can provide technical implementation details ...' (addTechnicalDetails)
TechnicalSuffix == <<"\n","\n","t","e","c","h","n","i","c","a","l">>
\* 'Based on current web search results for "<query>":\n\n' (createEnhancedContentWithGrounding)
GroundingHeader == <<"w","e","b",":">>

(***************************************************************************)
(* SystemInstructionsService.                                              *)
(***************************************************************************)
createSystemInstruction(text) == Content("system", <<TextPart(text)>>)

\* instructions: [default |-> optional Content, models |-> [ModelNames -> optional Content]]
getSystemInstruction(instructions, modelName) ==
  IF modelName \in ModelNames /\ instructions.models[modelName] # Absent
    THEN instructions.models[modelName]
    ELSE instructions.default

applySystemInstruction(instructions, contents, systemInstruction, modelName) ==
  LET effectiveInstruction ==
        IF systemInstruction # Absent THEN systemInstruction
        ELSE getSystemInstruction(instructions, modelName)
      hasSystemInstruction ==
        \E i \in 1..Len(contents) :
          \/ contents[i].role = "system"
          \/ /\ contents[i].role = "user"
             /\ \E j \in 1..Len(contents[i].parts) :
                  /\ isTextPart(contents[i].parts[j])
                  /\ includes(toLowerCase(contents[i].parts[j].text), W_system)
  IN IF effectiveInstruction = Absent THEN contents
     ELSE IF hasSystemInstruction THEN contents
     ELSE <<effectiveInstruction[1]>> \o contents

NonWordChars == {" ", "\n", "'", "?", "!", ".", ":", "*"}
isWordChar(c) == c \notin NonWordChars

\* the contraction table of makeFormal: <<pattern, replacement>>; the fourteen
\* rules have the same shape, two are kept
Contractions ==
  << << <<"i","'","m">>, <<"I"," ","a","m">> >>,
     << <<"c","a","n","'","t">>, <<"c","a","n","n","o","t">> >> >>

\* /\b<pat>\b/i matches at position i of t (pat starts and ends with a
\* word character)
matchesWordAt(t, i, pat) ==
  /\ i + Len(pat) - 1 <= Len(t)
  /\ toLowerCase(SubSeq(t, i, i + Len(pat) - 1)) = pat
  /\ (i = 1 \/ ~isWordChar(t[i - 1]))
  /\ (i + Len(pat) - 1 = Len(t) \/ ~isWordChar(t[i + Len(pat)]))

\* text.replace(/\b<pat>\b/gi, rep): the leftmost match replaced, then the
\* rest of the text (which starts at a non-word character or is empty)
RECURSIVE replaceWord(_, _, _)
replaceWord(t, pat, rep) ==
  LET matches == {i \in 1..Len(t) : matchesWordAt(t, i, pat)}
      first == nth(matches, 1)
  IN IF matches = {} THEN t
     ELSE SubSeq(t, 1, first - 1) \o rep
          \o replaceWord(SubSeq(t, first + Len(pat), Len(t)), pat, rep)

RECURSIVE makeFormalFrom(_, _)
makeFormalFrom(text, k) ==
  IF k > Len(Contractions) THEN text
  ELSE makeFormalFrom(replaceWord(text, Contractions[k][1], Contractions[k][2]), k + 1)

makeFormal(text) == makeFormalFrom(text, 1)

SentenceEnds == {".", "!", "?"}

\* text.split(/[.!?]+/): a run of terminators is one separator, so the
\* pieces are those of splitAt without the empty pieces inside a run
splitSentences(t) ==
  LET pieces == splitAt(t, SentenceEnds)
      cuts == {i \in 1..Len(t) : t[i] \in SentenceEnds}
      \* piece k+1 follows the k-th terminator; it is dropped when it is
      \* empty and the next character is another terminator
      kept == {k \in 1..Len(pieces) :
                 \/ k = 1
                 \/ pieces[k] # <<>>
                 \/ nth(cuts, k - 1) = Len(t)}
  IN [n \in 1..Cardinality(kept) |-> pieces[nth(kept, n)]]

nonBlank(s) == trim(s) # <<>>

makeConcise(text) ==
  Bind(SelectSeq(splitSentences(text), nonBlank), LAMBDA sentences :
    IF Len(sentences) <= 2 THEN text
    ELSE join(SubSeq(sentences, 1, (7 * Len(sentences) + 9) \div 10), <<".", " ">>)
         \o <<".">>)

addTechnicalDetails(text) ==
  IF ~includes(text, W_technical) /\ ~includes(text, W_implementation)
    THEN text \o TechnicalSuffix ELSE text

makeMoreHelpful(text) ==
  IF ~includes(text, W_help) /\ ~includes(text, W_assist)
    THEN text \o HelpfulSuffix ELSE text

enhanceResponseWithSystemBehavior(instructions, originalResponse, systemInstruction, modelName) ==
  Bind(IF systemInstruction # Absent THEN systemInstruction
       ELSE getSystemInstruction(instructions, modelName), LAMBDA effectiveInstruction :
    IF effectiveInstruction = Absent THEN originalResponse
    ELSE
  Bind(toLowerCase(extractTextFromResponse(effectiveInstruction[1])), LAMBDA instructionText :
  Bind(IF includes(instructionText, W_formal) \/ includes(instructionText, W_professional)
         THEN makeFormal(originalResponse) ELSE originalResponse, LAMBDA r1 :
  Bind(IF includes(instructionText, W_concise) \/ includes(instructionText, W_brief)
         THEN makeConcise(r1) ELSE r1, LAMBDA r2 :
  Bind(IF includes(instructionText, W_technical) \/ includes(instructionText, W_detailed)
         THEN addTechnicalDetails(r2) ELSE r2, LAMBDA r3 :
    IF includes(instructionText, W_helpful) \/ includes(instructionText, W_assist)
      THEN makeMoreHelpful(r3) ELSE r3)))))

(***************************************************************************)
(* ContextCachingService: pure parts.  The store maps each cache id to an  *)
(* optional entry [project, systemInstruction, contents, tokenCount,       *)
(* expireTime].  Hit statistics (hitCount, stats) are write-only counters  *)
(* for the operations modelled here and are left out.                      *)
(***************************************************************************)
CacheIds == 1..MaxCacheIds

isExpired(entry, t) == t > entry.expireTime

RECURSIVE estimatePartsTokens(_)
estimatePartsTokens(parts) ==
  IF Len(parts) = 0 THEN 0
  ELSE (IF isTextPart(parts[1]) /\ parts[1].text # <<>>
          THEN (Len(parts[1].text) + 3) \div 4 ELSE 0)
       + estimatePartsTokens(Tail(parts))

estimateContentTokens(content) == estimatePartsTokens(content.parts)

RECURSIVE sumContentTokens(_)
sumContentTokens(contents) ==
  IF Len(contents) = 0 THEN 0
  ELSE estimateContentTokens(contents[1]) + sumContentTokens(Tail(contents))

calculateTokenCount(request) ==
  (IF request.systemInstruction # Absent
     THEN estimateContentTokens(request.systemInstruction[1]) ELSE 0)
  + sumContentTokens(request.contents)

\* getCachedContent: [cache |-> the store afterwards, entry |-> optional entry]
getCachedContent(store, cacheId, t) ==
  IF cacheId \notin CacheIds \/ store[cacheId] = Absent
    THEN [cache |-> store, entry |-> Absent]
  ELSE IF isExpired(store[cacheId][1], t)
    THEN [cache |-> [store EXCEPT ![cacheId] = Absent], entry |-> Absent]
  ELSE [cache |-> store, entry |-> store[cacheId]]

applyCachedContent(store, cacheId, newContents, t) ==
  Bind(getCachedContent(store, cacheId, t), LAMBDA got :
    IF got.entry = Absent
      THEN [cache |-> got.cache, allContents |-> newContents,
            usedCache |-> FALSE, cacheTokenCount |-> 0]
      ELSE [cache |-> got.cache,
            allContents |->
              (IF got.entry[1].systemInstruction # Absent
                 THEN <<got.entry[1].systemInstruction[1]>> ELSE <<>>)
              \o got.entry[1].contents \o newContents,
            usedCache |-> TRUE,
            cacheTokenCount |-> got.entry[1].tokenCount])

(***************************************************************************)
(* AdvancedFeaturesService and ThinkingModeService.                        *)
(***************************************************************************)
removeChar(t, c) == SelectSeq(t, LAMBDA x : x # c)

\* the fallback branch of extractSearchQuery; the five phrase patterns
\* ("what is X", ...) need input text that holds those phrases
extractSearchQuery(content) ==
  IF includes(content, <<"?">>) THEN trim(removeChar(content, "?"))
  ELSE trim(content)

createEnhancedContentWithGrounding(query) ==
  GroundingHeader \o query \o <<"\n", "\n">>

\* processEnhancedTools: tools is a sequence of "search" / "code"
RECURSIVE additionalContent(_, _)
additionalContent(tools, requestContent) ==
  IF Len(tools) = 0 THEN <<>>
  ELSE (IF tools[1] = "search" /\ extractSearchQuery(requestContent) # <<>>
          THEN createEnhancedContentWithGrounding(extractSearchQuery(requestContent))
          ELSE <<>>)
       \o additionalContent(Tail(tools), requestContent)

hasGroundingMetadata(tools, requestContent) ==
  \E i \in 1..Len(tools) :
    tools[i] = "search" /\ extractSearchQuery(requestContent) # <<>>

RECURSIVE processCodeExecutionParts(_)
processCodeExecutionParts(parts) ==
  IF Len(parts) = 0 THEN <<>>
  ELSE (IF parts[1].kind = "code" THEN <<parts[1], ResultPart>> ELSE <<parts[1]>>)
       \o processCodeExecutionParts(Tail(parts))

isThinkingModeSupported(modelName) == modelName = "gemini-1.5-pro"

\* inputText.split(/\s+/).length
wordCount(t) ==
  1 + Cardinality({i \in 1..Len(t) :
                     isWhitespace(t[i]) /\ (i = 1 \/ ~isWhitespace(t[i - 1]))})

isComplexQuery(inputText) ==
  \/ Count(inputText, "?") > 1
  \/ wordCount(inputText) > 20
  \/ includes(inputText, W_comprehensive)
  \/ includes(inputText, W_detailed)
  \/ includes(inputText, W_thorough)

RECURSIVE truthyTexts(_)
truthyTexts(contents) ==
  IF Len(contents) = 0 THEN <<>>
  ELSE LET ps == SelectSeq(contents[1].parts,
                           LAMBDA p : isTextPart(p) /\ p.text # <<>>)
       IN [i \in 1..Len(ps) |-> ps[i].text] \o truthyTexts(Tail(contents))

extractTextFromRequest(request) == join(truthyTexts(request.contents), <<" ">>)

shouldEnableThinking(request, modelName) ==
  /\ isThinkingModeSupported(modelName)
  /\ request.enableThinking
  /\ isComplexQuery(extractTextFromRequest(request))

addThinkingToResponse(originalParts, modelName) ==
  IF ~isThinkingModeSupported(modelName) THEN originalParts
  ELSE <<ThoughtPart>> \o originalParts

(***************************************************************************)
(* Token-budget enforcer: output trimming.                                 *)
(***************************************************************************)
\* text.split(' ')
split(t) == splitAt(t, {" "})

\* the for loop of trimTextToTokenLimit
RECURSIVE trimWords(_, _, _)
trimWords(words, trimmedText, approximateCharLimit) ==
  IF Len(words) = 0 THEN trimmedText
  ELSE LET wordWithSpace == (IF trimmedText # <<>> THEN <<" ">> ELSE <<>>) \o words[1]
       IN IF Len(trimmedText) + Len(wordWithSpace) > approximateCharLimit
            THEN trimmedText
            ELSE trimWords(Tail(words), trimmedText \o wordWithSpace, approximateCharLimit)

\* trimTextToTokenLimit with five characters to the token
trimTextToTokenLimitByFive(text, tokenLimit) ==
  LET approximateCharLimit == tokenLimit * 5
  IN IF estimateTokens(text) <= tokenLimit THEN text
     ELSE Bind(trimWords(split(text), <<>>, approximateCharLimit), LAMBDA trimmedText :
            IF trimmedText = <<>>
              THEN SubSeq(text, 1, IF approximateCharLimit < Len(text)
                                     THEN approximateCharLimit ELSE Len(text))
              ELSE trimmedText)

trimTextToTokenLimit(text, tokenLimit) ==
  LET approximateCharLimit == tokenLimit * 4
  IN IF estimateTokens(text) <= tokenLimit THEN text
     ELSE Bind(trimWords(split(text), <<>>, approximateCharLimit), LAMBDA trimmedText :
            IF trimmedText = <<>>
              THEN SubSeq(text, 1, IF approximateCharLimit < Len(text)
                                     THEN approximateCharLimit ELSE Len(text))
              ELSE trimmedText)

trimParts(parts, tokenLimit) ==
  [i \in 1..Len(parts) |->
     IF isTextPart(parts[i])
       THEN TextPart(trimTextToTokenLimit(parts[i].text, tokenLimit))
       ELSE parts[i]]

\* trimResponseToTokenLimit: the response it returns.  The copy is shallow:
\* candidate.content stays the object of the response passed in, so that
\* response's parts become the trimmed parts too (see generateContent).
trimResponseToTokenLimit(response, tokenLimit) ==
  Bind([response EXCEPT !.parts = trimParts(response.parts, tokenLimit)], LAMBDA trimmed :
  Bind(estimateTokens(extractTextFromResponse(trimmed)), LAMBDA actualTokens :
    [trimmed EXCEPT
       !.usageMetadata.candidatesTokenCount = actualTokens,
       !.usageMetadata.totalTokenCount =
           trimmed.usageMetadata.promptTokenCount + actualTokens]))

(***************************************************************************)
(* Trigger matcher.  A preset is [id, trigger |-> [type, value], response].*)
(* A regex trigger value is a literal pattern (no metacharacters) or the   *)
(* invalid pattern "(".                                                    *)
(***************************************************************************)
InvalidPattern == <<"(">>

presetMatches(preset, inputText) ==
  LET lowercaseInput == toLowerCase(inputText)
      trigger == preset.trigger
  IN CASE trigger.type = "text" -> lowercaseInput = toLowerCase(trigger.value)
       [] trigger.type = "contains" -> includes(lowercaseInput, toLowerCase(trigger.value))
       [] trigger.type = "regex" ->
            /\ trigger.value # InvalidPattern
            /\ includes(toLowerCase(inputText), toLowerCase(trigger.value))
       [] OTHER -> FALSE

\* index of the first matching preset, 0 for null
findMatchingPreset(presets, inputText) ==
  IF \E i \in 1..Len(presets) : presetMatches(presets[i], inputText)
    THEN CHOOSE i \in 1..Len(presets) :
           /\ presetMatches(presets[i], inputText)
           /\ \A j \in 1..(i - 1) : ~presetMatches(presets[j], inputText)
    ELSE 0

(***************************************************************************)
(* MockGeminiService.generateContent.                                      *)
(* request: [contents, systemInstruction, cachedContent, tools,            *)
(*           enableThinking].  The result names the reply and the shared   *)
(* objects as the call leaves them: `response = matchedResponse.response`  *)
(* is a reference into the preset table (or to defaultFallbackResponse),   *)
(* and every assignment through it writes the table.                       *)
(***************************************************************************)
textOf(part) == IF isTextPart(part) THEN part.text ELSE <<>>

setFirstPart(parts, p) ==
  IF Len(parts) = 0 THEN <<p>> ELSE [parts EXCEPT ![1] = p]

generateContent(request, modelName, presets, fallback, store, instructions, t) ==
  \* handle cached content
  Bind(IF request.cachedContent # Absent
         THEN applyCachedContent(store, request.cachedContent[1], request.contents, t)
         ELSE [cache |-> store, allContents |-> request.contents,
               usedCache |-> FALSE, cacheTokenCount |-> 0], LAMBDA applied :
  \* system instruction, then the input text of the effective contents
  Bind(extractTextFromContents(
         applySystemInstruction(instructions, applied.allContents,
                                request.systemInstruction, modelName)), LAMBDA inputText :
  Bind(getModelByName(modelName), LAMBDA model :
    IF model # Absent /\ estimateTokens(inputText) > model[1].inputTokenLimit
      THEN [error |-> "TokenLimitError", inputTokens |-> estimateTokens(inputText),
            response |-> Absent,
            presets |-> presets, fallback |-> fallback, cache |-> applied.cache]
      ELSE
  Bind(findMatchingPreset(presets, inputText), LAMBDA matched :
  Bind(IF matched > 0 THEN presets[matched].response ELSE fallback, LAMBDA response :
  \* enhance response with grounding content
  Bind(additionalContent(request.tools, inputText), LAMBDA enhancedContent :
  Bind(IF enhancedContent # <<>>
         THEN setFirstPart(response.parts,
                TextPart(enhancedContent \o <<"\n", "\n">> \o
                         (IF Len(response.parts) > 0
                            THEN textOf(response.parts[1]) ELSE <<>>)))
         ELSE response.parts, LAMBDA parts1 :
  \* system instruction behavioural enhancements
  Bind(enhanceResponseWithSystemBehavior(instructions, textOf(parts1[1]),
                                         request.systemInstruction, modelName),
       LAMBDA enhancedText :
  Bind(IF Len(parts1) > 0 /\ enhancedText # textOf(parts1[1])
         THEN [parts1 EXCEPT ![1] = TextPart(enhancedText)]
         ELSE parts1, LAMBDA parts2 :
  \* code execution, thinking
  Bind(processCodeExecutionParts(parts2), LAMBDA parts3 :
  Bind([parts |-> IF shouldEnableThinking(request, modelName)
                    THEN addThinkingToResponse(parts3, modelName) ELSE parts3,
        \* usage metadata to include cache tokens
        usageMetadata |->
          IF applied.cacheTokenCount > 0
            THEN [response.usageMetadata EXCEPT
                    !.cachedContentTokenCount = applied.cacheTokenCount,
                    !.totalTokenCount =
                        response.usageMetadata.totalTokenCount + applied.cacheTokenCount]
            ELSE response.usageMetadata,
        groundingMetadata |->
          IF hasGroundingMetadata(request.tools, inputText)
            THEN TRUE ELSE response.groundingMetadata], LAMBDA assembled :
  Bind(IF model # Absent /\ model[1].outputTokenLimit # 0
         THEN trimResponseToTokenLimit(assembled, model[1].outputTokenLimit)
         ELSE assembled, LAMBDA returned :
  \* the shared object afterwards: the trimmed parts, the billed usage
  Bind([assembled EXCEPT !.parts = returned.parts], LAMBDA shared :
    [error |-> "", inputTokens |-> estimateTokens(inputText),
     response |-> Some(returned),
     presets |-> IF matched > 0
                   THEN [presets EXCEPT ![matched].response = shared]
                   ELSE presets,
     fallback |-> IF matched > 0 THEN fallback ELSE shared,
     cache |-> applied.cache])))))))))))))

(***************************************************************************)
(* MockGeminiService.countTokens, embedContent, batchEmbedContents.        *)
(* Each result is [error, payload].                                        *)
(***************************************************************************)
DefaultTotalTokens == 42
EmbeddingLength == 768

\* the vector is a function of the text alone
generateDeterministicEmbedding(text) == [length |-> EmbeddingLength, text |-> text]

countTokens(contents, modelName) ==
  Bind(extractTextFromContents(contents), LAMBDA text :
  Bind((Len(text) + 3) \div 4, LAMBDA approximateTokens :
  Bind(getModelByName(modelName), LAMBDA model :
    IF model # Absent /\ approximateTokens > model[1].inputTokenLimit
      THEN [error |-> "TokenLimitError", payload |-> Absent]
      ELSE [error |-> "",
            payload |-> Some([totalTokens |->
                                IF approximateTokens # 0 THEN approximateTokens
                                ELSE DefaultTotalTokens])])))

embedContent(content, modelName) ==
  Bind(extractTextFromContent(content), LAMBDA text :
  Bind(getModelByName(modelName), LAMBDA model :
    IF model # Absent /\ estimateTokens(text) > model[1].inputTokenLimit
      THEN [error |-> "TokenLimitError", payload |-> Absent]
      ELSE [error |-> "", payload |-> Some(generateDeterministicEmbedding(text))]))

\* Promise.all over one embedContent call per item: the first rejection, or
\* every embedding in order
batchEmbedContents(requests, modelName) ==
  Bind([n \in 1..Len(requests) |-> embedContent(requests[n], modelName)], LAMBDA results :
    IF \E n \in 1..Len(results) : results[n].error # ""
      THEN [error |-> results[CHOOSE n \in 1..Len(results) :
                                /\ results[n].error # ""
                                /\ \A m \in 1..(n - 1) : results[m].error = ""].error,
            payload |-> Absent]
      ELSE [error |-> "",
            payload |-> Some([n \in 1..Len(results) |-> results[n].payload[1]])])

(***************************************************************************)
(* GoogleAIService: the Google AI surface.  Its preset table holds presets *)
(* of the same shape; its responses are converted copies, so it writes     *)
(* nothing back into a table.                                              *)
(***************************************************************************)
GoogleAIBigInputTokenLimit == 2097152

getGoogleAIModelByName(modelName) ==
  IF modelName = "gemini-1.5-pro"
    THEN Some([inputTokenLimit |-> GoogleAIBigInputTokenLimit,
               outputTokenLimit |-> BigOutputTokenLimit])
  ELSE IF modelName = "text-embedding-004"
    THEN Some([inputTokenLimit |-> SmallInputTokenLimit,
               outputTokenLimit |-> SmallOutputTokenLimit])
  ELSE Absent

\* a part {text: undefined}: what convertToGoogleAIResponse makes of a part
\* that has no text
NoTextPart == [kind |-> "none", text |-> <<>>]

\* part.text is truthy
hasText(part) == isTextPart(part) /\ part.text # <<>>

convertToGoogleAIResponse(vertexResponse) ==
  [parts |-> [i \in 1..Len(vertexResponse.parts) |->
                IF isTextPart(vertexResponse.parts[i])
                  THEN TextPart(vertexResponse.parts[i].text) ELSE NoTextPart],
   usageMetadata |-> vertexResponse.usageMetadata,
   groundingMetadata |-> FALSE]

\* what the loop of GoogleAIService.findMatchingPreset does with one preset:
\* "match", "throw" (new RegExp of an invalid pattern) or "next"
googleAITryPreset(preset, inputText) ==
  LET trigger == preset.trigger
      lowercaseInput == toLowerCase(inputText)
  IN CASE trigger.type \in {"text", "contains"} ->
            IF includes(lowercaseInput, toLowerCase(trigger.value)) THEN "match" ELSE "next"
       [] trigger.type = "regex" ->
            IF trigger.value = InvalidPattern THEN "throw"
            ELSE IF includes(lowercaseInput, toLowerCase(trigger.value)) THEN "match"
            ELSE "next"
       [] OTHER -> "next"

\* the preset the loop stops at: [index, thrown]; index 0 for undefined
googleAIFindMatchingPreset(presets, inputText) ==
  LET stops == {i \in 1..Len(presets) : googleAITryPreset(presets[i], inputText) # "next"}
  IN IF stops = {} THEN [index |-> 0, thrown |-> FALSE]
     ELSE Bind(nth(stops, 1), LAMBDA i :
            IF googleAITryPreset(presets[i], inputText) = "throw"
              THEN [index |-> 0, thrown |-> TRUE]
              ELSE [index |-> i, thrown |-> FALSE])

googleAITrimTextToTokenLimit(text, tokenLimit) ==
  LET estimatedTokens == estimateTokens(text)
  IN IF estimatedTokens <= tokenLimit THEN text
     \* Math.floor(text.length * (tokenLimit / estimatedTokens)): for a text
     \* of fewer than 88 characters the double arithmetic gives this quotient
     ELSE SubSeq(text, 1, (Len(text) * tokenLimit) \div estimatedTokens)

googleAITrimResponseToTokenLimit(response, tokenLimit) ==
  [response EXCEPT !.parts =
     [i \in 1..Len(response.parts) |->
        IF hasText(response.parts[i])
          THEN TextPart(googleAITrimTextToTokenLimit(response.parts[i].text, tokenLimit))
          ELSE response.parts[i]]]

\* GoogleAIService.generateContent: [error, response, matched]
googleAIGenerateContent(request, modelName, presets, fallback, instructions) ==
  Bind(extractTextFromContents(
         IF request.systemInstruction # Absent
           THEN applySystemInstruction(instructions, request.contents,
                                       request.systemInstruction, modelName)
           ELSE request.contents), LAMBDA inputText :
  Bind(getGoogleAIModelByName(modelName), LAMBDA model :
    IF model # Absent /\ estimateTokens(inputText) > model[1].inputTokenLimit
      THEN [error |-> "TokenLimitError", response |-> Absent, matched |-> 0]
      ELSE
  Bind(googleAIFindMatchingPreset(presets, inputText), LAMBDA found :
    IF found.thrown
      THEN [error |-> "SyntaxError", response |-> Absent, matched |-> 0]
      ELSE
  Bind(convertToGoogleAIResponse(IF found.index > 0 THEN presets[found.index].response
                                 ELSE fallback), LAMBDA response :
  Bind(additionalContent(request.tools, inputText), LAMBDA enhancedContent :
  Bind(IF enhancedContent # <<>>
         THEN setFirstPart(response.parts,
                TextPart(enhancedContent \o <<"\n", "\n">> \o
                         (IF Len(response.parts) > 0
                            THEN textOf(response.parts[1]) ELSE <<>>)))
         ELSE response.parts, LAMBDA parts1 :
  Bind(processCodeExecutionParts(parts1), LAMBDA parts2 :
  Bind(IF request.systemInstruction # Absent /\ Len(parts2) > 0
         THEN enhanceResponseWithSystemBehavior(instructions, textOf(parts2[1]),
                                                request.systemInstruction, modelName)
         ELSE <<>>, LAMBDA enhancedText :
  Bind(IF request.systemInstruction # Absent /\ Len(parts2) > 0
          /\ enhancedText # textOf(parts2[1])
         THEN [parts2 EXCEPT ![1] = TextPart(enhancedText)]
         ELSE parts2, LAMBDA parts3 :
  Bind([parts |-> IF shouldEnableThinking(request, modelName)
                    THEN addThinkingToResponse(parts3, modelName) ELSE parts3,
        usageMetadata |-> response.usageMetadata,
        groundingMetadata |-> hasGroundingMetadata(request.tools, inputText)],
       LAMBDA assembled :
    [error |-> "",
     response |-> Some(IF model # Absent /\ model[1].outputTokenLimit # 0
                         THEN googleAITrimResponseToTokenLimit(assembled,
                                                               model[1].outputTokenLimit)
                         ELSE assembled),
     matched |-> found.index]))))))))))

(***************************************************************************)
(* streamGenerateContent: the increments yielded for a complete response.  *)
(* An increment is [text, finishReason, usageMetadata]; finishReason ""    *)
(* and usageMetadata Absent stand for undefined.                           *)
(***************************************************************************)
\* the increments of one part's text: one per space-separated word
streamWords(text, usageMetadata) ==
  Bind(split(text), LAMBDA words :
    [i \in 1..Len(words) |->
       [text |-> join(SubSeq(words, 1, i), <<" ">>),
        finishReason |-> IF i = Len(words) THEN "STOP" ELSE "",
        usageMetadata |-> IF i = Len(words) THEN Some(usageMetadata) ELSE Absent]])

\* the increments of the parts that are streamed, part after part
RECURSIVE streamParts(_, _)
streamParts(parts, usageMetadata) ==
  IF Len(parts) = 0 THEN <<>>
  ELSE streamWords(parts[1].text, usageMetadata)
       \o streamParts(Tail(parts), usageMetadata)

\* MockGeminiService.streamGenerateContent, after generateContent returned
streamGenerateContent(response) ==
  streamParts(SelectSeq(response.parts, isTextPart), response.usageMetadata)

\* GoogleAIService.streamGenerateContent, after generateContent returned
googleAIStreamGenerateContent(response) ==
  streamParts(SelectSeq(response.parts, hasText), response.usageMetadata)

(***************************************************************************)
(* State.                                                                  *)
(***************************************************************************)
VARIABLES
  presetResponses,          \* config.presetResponses: the preset table
  googleAIPresetResponses,  \* config.presetResponses of the Google AI service
  defaultFallbackResponse,  \* the module-level fallback response object
  instructions,             \* systemInstructionsService: default and per-model instruction
  cache,                    \* contextCachingService.cache
  cacheIdCounter,           \* contextCachingService.cacheIdCounter
  cleanupTimers,            \* pending setTimeout callbacks of scheduleCleanup: [id, at]
  now,                      \* the clock (seconds)
  jobs,                     \* BatchProcessingService.jobs
  jobIdCounter,             \* BatchProcessingService.jobIdCounter
  cancelled,                \* the jobs whose cancellation was acknowledged (history)
  served,                   \* how many requests the generation routes have served
  call,                     \* the step taken last: a route call or an event, with its arguments
  reply,                    \* what that step answered (NoReply for an event)
  listing                   \* a client paging through listCachedContent: what it has read

vars == <<presetResponses, googleAIPresetResponses, defaultFallbackResponse, instructions, cache, cacheIdCounter,
          cleanupTimers, now, jobs, jobIdCounter, cancelled, served, call, reply,
          listing>>

genVars == <<presetResponses, googleAIPresetResponses, defaultFallbackResponse, instructions>>
cacheVars == <<cache, cacheIdCounter, cleanupTimers>>
batchVars == <<jobs, jobIdCounter, cancelled>>

(***************************************************************************)
(* Initial data: the static tables, abbreviated.                           *)
(***************************************************************************)
\* 'Hello! How can I help you today? I'm here to assist you ...'
GreetingText ==
  <<"H","i","!"," ","I"," ","h","e","l","p","?"," ","I","'","m"," ","h","e","r","e",".">>
\* 'Here's a Python code example that I can execute:'
CodeIntroText == <<"c","o","d","e",":">>
\* 'print("Hello from Python!") ...'
CodeText == <<"p","r","i","n","t">>
\* 'I understand your request. This is a mock response ... more specific and helpful response ...'
FallbackText == <<"m","o","c","k"," ","h","e","l","p","f","u","l"," ","r","e","p","l","y">>

\* defaultPresetResponses: 'greeting' and 'code-execution'
defaultPresetResponses ==
  << [id |-> "greeting",
      trigger |-> [type |-> "contains", value |-> W_hello],
      response |-> Response(<<TextPart(GreetingText)>>, UsageMetadata(3, 25, 28))],
     [id |-> "code-execution",
      trigger |-> [type |-> "contains", value |-> W_py],
      response |-> Response(<<TextPart(CodeIntroText), CodePart(CodeText)>>,
                            UsageMetadata(12, 30, 42))] >>

InitialFallbackResponse ==
  Response(<<TextPart(FallbackText)>>, UsageMetadata(25, 35, 60))

\* 'You are a helpful, harmless, and honest AI assistant. ... respectful and professional. ...'
DefaultInstructionText ==
  <<"p","r","o","f","e","s","s","i","o","n","a","l"," ","a","s","s","i","s","t">>
\* 'You are Gemini 1.5 Pro ... detailed explanations when helpful. ...'
Pro15InstructionText ==
  <<"d","e","t","a","i","l","e","d"," ","a","s","s","i","s","t">>

\* initializeDefaultInstructions
InitialInstructions ==
  [default |-> Some(createSystemInstruction(DefaultInstructionText)),
   models |-> [m \in ModelNames |->
                 IF m = "gemini-1.5-pro"
                   THEN Some(createSystemInstruction(Pro15InstructionText))
                   ELSE Absent]]

NoCall == [op |-> "none"]
\* no listing under way
NoListing == [active |-> FALSE]
NoReply == [code |-> 0]

Init ==
  /\ presetResponses = defaultPresetResponses
  /\ googleAIPresetResponses = defaultPresetResponses
  /\ defaultFallbackResponse = InitialFallbackResponse
  /\ instructions = InitialInstructions
  /\ cache = [id \in CacheIds |-> Absent]
  /\ cacheIdCounter = 1
  /\ cleanupTimers = {}
  /\ now = 0
  /\ jobs = <<>>
  /\ jobIdCounter = 1
  /\ cancelled = {}
  /\ served = 0
  /\ call = NoCall
  /\ reply = NoReply
  /\ listing = NoListing

(***************************************************************************)
(* Inputs.                                                                 *)
(***************************************************************************)
AtLimitText == Rep("a", 4 * SmallInputTokenLimit)
OverLimitText == Rep("a", 4 * SmallInputTokenLimit + 1)

InputTexts ==
  { W_hello, W_py, <<"a","b","c">>, <<"w","h","y","?","?">>, AtLimitText, OverLimitText }

userContent(text) == Content("user", <<TextPart(text)>>)

RequestInstructions == { Absent, Some(createSystemInstruction(W_brief)) }
RequestTools == { <<>>, <<"search">>, <<"code">> }
RequestModels == { "", "gemini-1.5-pro", "text-embedding-004" }

makeRequest(text, si, cc, tools) ==
  [contents |-> <<userContent(text)>>, systemInstruction |-> si,
   cachedContent |-> cc, tools |-> tools, enableThinking |-> TRUE]

\* every text alone; each other request field with a matching and a long text
GenerateRequests ==
  { makeRequest(text, Absent, Absent, <<>>) : text \in InputTexts }
  \cup { makeRequest(text, si, Absent, <<>>) :
           text \in {W_hello, AtLimitText}, si \in RequestInstructions }
  \cup { makeRequest(text, Absent, Some(id), <<>>) :
           text \in {W_hello, AtLimitText}, id \in CacheIds }
  \cup { makeRequest(text, Absent, Absent, tools) :
           text \in {W_py, AtLimitText}, tools \in RequestTools }

\* the stored responses stay within the bounds of the model
withinBounds(response) ==
  /\ Len(response.parts) <= MaxParts
  /\ \A i \in 1..Len(response.parts) : Len(response.parts[i].text) <= MaxTextLen
  /\ response.usageMetadata.totalTokenCount
       <= response.usageMetadata.promptTokenCount
          + response.usageMetadata.candidatesTokenCount + MaxBilledTokens

(***************************************************************************)
(* Vertex AI routes over MockGeminiService.                                *)
(***************************************************************************)
\* the error envelope of the catch block of the routes
routeError(error) ==
  IF error = "TokenLimitError"
    THEN [code |-> 400, status |-> "INVALID_ARGUMENT", error |-> error, response |-> Absent]
    ELSE [code |-> 500, status |-> "INTERNAL", error |-> error, response |-> Absent]

\* POST ...:generateContent
GenerateContent(request, modelName) ==
  \E r \in { generateContent(request, modelName, presetResponses,
                               defaultFallbackResponse, cache, instructions, now) } :
     /\ served < MaxRequests
     /\ \A i \in 1..Len(r.presets) : withinBounds(r.presets[i].response)
     /\ withinBounds(r.fallback)
     /\ served' = served + 1
     /\ presetResponses' = r.presets
     /\ defaultFallbackResponse' = r.fallback
     /\ cache' = r.cache
     /\ call' = [op |-> "generateContent", request |-> request, modelName |-> modelName]
     /\ reply' = IF r.error # "" THEN routeError(r.error)
                 ELSE [code |-> 200, status |-> "OK", error |-> "", response |-> r.response]
     /\ UNCHANGED <<googleAIPresetResponses, instructions, cacheIdCounter, cleanupTimers,
                    now, batchVars, listing>>

\* the reply of a route whose service call returned [error, payload]
routeReply(r) ==
  IF r.error # "" THEN routeError(r.error)
  ELSE [code |-> 200, status |-> "OK", error |-> "", response |-> r.payload]

\* POST ...:countTokens
CountTokens(text, modelName) ==
  /\ served < MaxRequests
  /\ served' = served + 1
  /\ call' = [op |-> "countTokens", text |-> text, modelName |-> modelName]
  /\ reply' = routeReply(countTokens(<<userContent(text)>>, modelName))
  /\ UNCHANGED <<genVars, cacheVars, now, batchVars, listing>>

\* POST ...:embedContent
EmbedContent(text, modelName) ==
  /\ served < MaxRequests
  /\ served' = served + 1
  /\ call' = [op |-> "embedContent", text |-> text, modelName |-> modelName]
  /\ reply' = routeReply(embedContent(userContent(text), modelName))
  /\ UNCHANGED <<genVars, cacheVars, now, batchVars, listing>>

EmbedBatches ==
  { <<W_hello>>, <<W_hello, OverLimitText>>, <<OverLimitText, W_hello>>,
    <<AtLimitText, AtLimitText>> }

\* POST ...:batchEmbedContents
BatchEmbedContents(texts, modelName) ==
  /\ served < MaxRequests
  /\ served' = served + 1
  /\ call' = [op |-> "batchEmbedContents", texts |-> texts, modelName |-> modelName]
  /\ reply' = routeReply(batchEmbedContents([n \in 1..Len(texts) |-> userContent(texts[n])],
                                            modelName))
  /\ UNCHANGED <<genVars, cacheVars, now, batchVars, listing>>

(***************************************************************************)
(* ContextCachingService behind the cached-content routes, with its        *)
(* cleanup timers and the clock.  A timer is [cacheId, at]: the callback   *)
(* scheduleCleanup registered, due when the clock reaches `at`.            *)
(***************************************************************************)
DefaultTtlSeconds == 3600

Projects == {"p1", "p2"}

CachedText == <<"c","t","x">>

\* the expiry fields of a create or update request
ExpiryInputs ==
  { [expireTime |-> Absent, ttl |-> Absent],
    [expireTime |-> Absent, ttl |-> Some(1)],
    [expireTime |-> Some(0), ttl |-> Absent],
    [expireTime |-> Some(MaxTime), ttl |-> Absent] }

cachedContentRequest(expiry) ==
  [systemInstruction |-> Absent, contents |-> <<userContent(CachedText)>>,
   expireTime |-> expiry.expireTime, ttl |-> expiry.ttl]

\* a timer due after the clock's last tick can never run and is not kept
scheduleCleanup(timers, cacheId, expireTime, t) ==
  IF expireTime - t > 0 /\ expireTime <= MaxTime
    THEN timers \cup {[cacheId |-> cacheId, at |-> expireTime]}
    ELSE timers

\* createCachedContent: the entry it stores
createCachedContent(request, projectId, t) ==
  [project |-> projectId,
   systemInstruction |-> request.systemInstruction,
   contents |-> request.contents,
   tokenCount |-> calculateTokenCount(request),
   expireTime |-> IF request.expireTime # Absent THEN request.expireTime[1]
                  ELSE IF request.ttl # Absent THEN t + request.ttl[1]
                  ELSE t + DefaultTtlSeconds]

\* updateCachedContent on a stored, unexpired entry
updateCachedContent(entry, request, t) ==
  [entry EXCEPT !.expireTime =
     IF request.expireTime # Absent THEN request.expireTime[1]
     ELSE IF request.ttl # Absent THEN t + request.ttl[1]
     ELSE @]

\* listCachedContent with the route's arguments (default pageSize, no
\* pageToken): the ids it returns
listCachedContent(store, projectId, t) ==
  { id \in CacheIds :
      /\ store[id] # Absent
      /\ store[id][1].project = projectId
      /\ ~isExpired(store[id][1], t) }

\* cleanupExpiredEntries: the entries of the first expired key only
cleanupFirstExpiredEntry(store, t) ==
  [id \in CacheIds |->
     IF /\ store[id] # Absent /\ isExpired(store[id][1], t)
        /\ \A other \in 1..(id - 1) :
              store[other] = Absent \/ ~isExpired(store[other][1], t)
       THEN Absent ELSE store[id]]

\* cleanupExpiredEntries: the store afterwards
cleanupExpiredEntries(store, t) ==
  [id \in CacheIds |->
     IF store[id] # Absent /\ isExpired(store[id][1], t) THEN Absent ELSE store[id]]

\* the expiredKeys that cleanupExpiredEntries collects
expiredKeys(store, t) ==
  { id \in CacheIds : store[id] # Absent /\ isExpired(store[id][1], t) }

RECURSIVE sumTokens(_, _)
sumTokens(store, ids) ==
  IF ids = {} THEN 0
  ELSE LET id == CHOOSE x \in ids : TRUE
       IN store[id][1].tokenCount + sumTokens(store, ids \ {id})

\* getCacheStats: the counts over the store
getCacheStats(store, t) ==
  LET stored == { id \in CacheIds : store[id] # Absent }
      expired == { id \in stored : isExpired(store[id][1], t) }
  IN [totalCaches |-> Cardinality(stored),
      activeCaches |-> Cardinality(stored \ expired),
      expiredCaches |-> Cardinality(expired),
      totalTokensStored |-> sumTokens(store, stored \ expired)]

\* the clock moves on; a timer that is due runs first
Tick ==
  /\ now < MaxTime
  /\ \A timer \in cleanupTimers : timer.at > now
  /\ now' = now + 1
  /\ call' = [op |-> "tick"]
  /\ reply' = NoReply
  /\ UNCHANGED <<genVars, cacheVars, batchVars, served, listing>>

\* POST .../cachedContents
CreateCachedContent(projectId, expiry) ==
  /\ cacheIdCounter <= MaxCacheIds
  /\ \E entry \in { createCachedContent(cachedContentRequest(expiry), projectId, now) } :
       /\ cache' = [cache EXCEPT ![cacheIdCounter] = Some(entry)]
       /\ cleanupTimers' = scheduleCleanup(cleanupTimers, cacheIdCounter, entry.expireTime, now)
       /\ reply' = [code |-> 201, status |-> "OK", cacheId |-> cacheIdCounter,
                    expireTime |-> entry.expireTime]
  /\ cacheIdCounter' = cacheIdCounter + 1
  /\ call' = [op |-> "createCachedContent", cacheId |-> cacheIdCounter]
  /\ UNCHANGED <<genVars, now, batchVars, served, listing>>

\* GET .../cachedContents/{id}
GetCachedContent(cacheId) ==
  /\ \E got \in { getCachedContent(cache, cacheId, now) } :
       /\ cache' = got.cache
       /\ reply' = IF got.entry = Absent
                     THEN [code |-> 404, status |-> "NOT_FOUND", cacheId |-> cacheId]
                     ELSE [code |-> 200, status |-> "OK", cacheId |-> cacheId,
                           expireTime |-> got.entry[1].expireTime]
  /\ call' = [op |-> "getCachedContent", cacheId |-> cacheId]
  /\ UNCHANGED <<genVars, cacheIdCounter, cleanupTimers, now, batchVars, served, listing>>

\* PATCH .../cachedContents/{id}
UpdateCachedContent(cacheId, expiry) ==
  /\ \E got \in { getCachedContent(cache, cacheId, now) } :
       IF got.entry = Absent
         THEN /\ cache' = got.cache
              /\ reply' = [code |-> 404, status |-> "NOT_FOUND", cacheId |-> cacheId]
              /\ UNCHANGED cleanupTimers
         ELSE \E entry \in { updateCachedContent(got.entry[1], expiry, now) } :
                /\ cache' = [cache EXCEPT ![cacheId] = Some(entry)]
                /\ cleanupTimers' =
                     scheduleCleanup(cleanupTimers, cacheId, entry.expireTime, now)
                /\ reply' = [code |-> 200, status |-> "OK", cacheId |-> cacheId,
                             expireTime |-> entry.expireTime]
  /\ call' = [op |-> "updateCachedContent", cacheId |-> cacheId]
  /\ UNCHANGED <<genVars, cacheIdCounter, now, batchVars, served, listing>>

\* deleteCachedContent: the store afterwards
deleteCachedContent(store, cacheId) == [store EXCEPT ![cacheId] = Absent]

\* DELETE .../cachedContents/{id}
DeleteCachedContent(cacheId) ==
  /\ cache' = deleteCachedContent(cache, cacheId)
  /\ reply' = IF cache[cacheId] = Absent
                THEN [code |-> 404, status |-> "NOT_FOUND", cacheId |-> cacheId]
                ELSE [code |-> 204, status |-> "OK", cacheId |-> cacheId]
  /\ call' = [op |-> "deleteCachedContent", cacheId |-> cacheId]
  /\ UNCHANGED <<genVars, cacheIdCounter, cleanupTimers, now, batchVars, served, listing>>

\* GET .../cachedContents
ListCachedContent(projectId) ==
  /\ reply' = [code |-> 200, status |-> "OK",
               cachedContents |-> listCachedContent(cache, projectId, now)]
  /\ call' = [op |-> "listCachedContent", project |-> projectId]
  /\ UNCHANGED <<genVars, cacheVars, now, batchVars, served, listing>>

\* contextCachingService.applyCachedContent, as generateContent calls it
ApplyCachedContent(cacheId) ==
  /\ \E applied \in { applyCachedContent(cache, cacheId, <<>>, now) } :
       /\ cache' = applied.cache
       /\ reply' = [code |-> 200, status |-> "OK", usedCache |-> applied.usedCache,
                    cacheTokenCount |-> applied.cacheTokenCount]
  /\ call' = [op |-> "applyCachedContent", cacheId |-> cacheId]
  /\ UNCHANGED <<genVars, cacheIdCounter, cleanupTimers, now, batchVars, served, listing>>

\* POST /admin/cache/cleanup
CleanupExpiredEntries ==
  /\ cache' = cleanupExpiredEntries(cache, now)
  /\ call' = [op |-> "cleanupExpiredEntries", expiredKeys |-> expiredKeys(cache, now)]
  /\ reply' = [code |-> 200, status |-> "OK"]
  /\ UNCHANGED <<genVars, cacheIdCounter, cleanupTimers, now, batchVars, served, listing>>

\* clearAllCaches: the timers already registered stay registered
ClearAllCaches ==
  /\ cache' = [id \in CacheIds |-> Absent]
  /\ cacheIdCounter' = 1
  /\ call' = [op |-> "clearAllCaches"]
  /\ reply' = NoReply
  /\ UNCHANGED <<genVars, cleanupTimers, now, batchVars, served, listing>>

\* a setTimeout callback of scheduleCleanup runs
CleanupTimerFires(timer) ==
  /\ timer \in cleanupTimers
  /\ now >= timer.at
  /\ cache' = deleteCachedContent(cache, timer.cacheId)
  /\ cleanupTimers' = cleanupTimers \ {timer}
  /\ call' = [op |-> "cleanupTimer", cacheId |-> timer.cacheId]
  /\ reply' = NoReply
  /\ UNCHANGED <<genVars, cacheIdCounter, now, batchVars, served, listing>>

NextCache ==
  \/ Tick
  \/ \E projectId \in Projects, expiry \in ExpiryInputs : CreateCachedContent(projectId, expiry)
  \/ \E cacheId \in CacheIds : GetCachedContent(cacheId)
  \/ \E cacheId \in CacheIds, expiry \in ExpiryInputs : UpdateCachedContent(cacheId, expiry)
  \/ \E cacheId \in CacheIds : DeleteCachedContent(cacheId)
  \/ \E projectId \in Projects : ListCachedContent(projectId)
  \/ \E cacheId \in CacheIds : ApplyCachedContent(cacheId)
  \/ CleanupExpiredEntries
  \/ ClearAllCaches
  \/ \E timer \in cleanupTimers : CleanupTimerFires(timer)

SpecCache == Init /\ [][NextCache]_vars

\* the entries whose expireTime lies before the clock
elapsed(store, t) == { id \in CacheIds : store[id] # Absent /\ t > store[id][1].expireTime }

\* C25: once the TTL of an entry has elapsed and cleanupExpiredEntries has run,
\* a direct lookup of the entry finds nothing and the cache statistics count
\* only the other entries: none is reported as expired, and the totals and
\* the stored tokens are those of the entries whose TTL has not elapsed.
C25_ElapsedEntryGoneAfterCleanup ==
  [][call'.op = "cleanupExpiredEntries"
       => LET kept == { id \in CacheIds : cache[id] # Absent } \ elapsed(cache, now)
              stats == getCacheStats(cache', now')
          IN /\ \A id \in elapsed(cache, now) :
                   getCachedContent(cache', id, now').entry = Absent
             /\ stats.totalCaches = Cardinality(kept)
             /\ stats.activeCaches = Cardinality(kept)
             /\ stats.expiredCaches = 0
             /\ stats.totalTokensStored = sumTokens(cache, kept)]_vars

\* cleanupExpiredEntries has removed two entries
C25_Witness ==
  /\ call.op = "cleanupExpiredEntries"
  /\ Cardinality(call.expiredKeys) = 2
  /\ \A id \in call.expiredKeys : cache[id] = Absent

(***************************************************************************)
(* listCachedContent with a page size and a page token, and a client that  *)
(* follows the tokens.                                                      *)
(***************************************************************************)
MaxPageSize == 2
PageSizes == 1..MaxPageSize

Digits == <<"0","1","2","3","4","5","6","7","8","9">>

\* endIndex.toString()
RECURSIVE toString(_)
toString(n) ==
  IF n < 10 THEN <<Digits[n + 1]>>
  ELSE toString(n \div 10) \o <<Digits[(n % 10) + 1]>>

digitValue(c) == (CHOOSE d \in 1..10 : Digits[d] = c) - 1

\* parseInt(pageToken) of a string of digits
RECURSIVE parseInt(_)
parseInt(str) ==
  IF Len(str) = 0 THEN 0
  ELSE 10 * parseInt(SubSeq(str, 1, Len(str) - 1)) + digitValue(str[Len(str)])

\* Array.from(this.cache.entries()) filtered by prefix and expiry: the Map
\* keeps insertion order, which is the order of the ids
RECURSIVE listedEntries(_, _, _, _)
listedEntries(store, projectId, t, id) ==
  IF id > MaxCacheIds THEN <<>>
  ELSE (IF /\ store[id] # Absent
           /\ store[id][1].project = projectId
           /\ ~isExpired(store[id][1], t)
          THEN <<id>> ELSE <<>>)
       \o listedEntries(store, projectId, t, id + 1)

\* entries.slice(startIndex, endIndex)
slice(entries, startIndex, endIndex) == SubSeq(entries, startIndex + 1, endIndex)

\* listCachedContent(projectId, location, pageSize, pageToken)
listCachedContentPaged(store, projectId, pageSize, pageToken, t) ==
  LET entries == listedEntries(store, projectId, t, 1)
      startIndex == IF pageToken # Absent THEN parseInt(pageToken[1]) ELSE 0
      endIndex == IF startIndex + pageSize < Len(entries)
                    THEN startIndex + pageSize ELSE Len(entries)
  IN [cachedContents |-> slice(entries, startIndex, endIndex),
      nextPageToken |-> IF endIndex < Len(entries) THEN Some(toString(endIndex))
                        ELSE Absent]

\* the client asks for the first page
ListFirstPage(projectId, pageSize) ==
  \E page \in { listCachedContentPaged(cache, projectId, pageSize, Absent, now) } :
     /\ listing' = [active |-> TRUE, projectId |-> projectId, pageSize |-> pageSize,
                    pageToken |-> page.nextPageToken, seen |-> page.cachedContents,
                    store |-> cache, at |-> now]
     /\ call' = [op |-> "listCachedContentPaged", projectId |-> projectId,
                 pageSize |-> pageSize, pageToken |-> Absent]
     /\ reply' = [code |-> 200, status |-> "OK", cachedContents |-> page.cachedContents,
                  nextPageToken |-> page.nextPageToken]
     /\ UNCHANGED <<genVars, cacheVars, now, batchVars, served>>

\* the client follows the nextPageToken of the page it read last
ListNextPage ==
  /\ listing.active
  /\ listing.pageToken # Absent
  /\ \E page \in { listCachedContentPaged(cache, listing.projectId, listing.pageSize,
                                           listing.pageToken, now) } :
       /\ listing' = [listing EXCEPT !.pageToken = page.nextPageToken,
                                     !.seen = @ \o page.cachedContents]
       /\ call' = [op |-> "listCachedContentPaged", projectId |-> listing.projectId,
                   pageSize |-> listing.pageSize, pageToken |-> listing.pageToken]
       /\ reply' = [code |-> 200, status |-> "OK", cachedContents |-> page.cachedContents,
                    nextPageToken |-> page.nextPageToken]
  /\ UNCHANGED <<genVars, cacheVars, now, batchVars, served>>

NextList ==
  \/ Tick
  \/ \E projectId \in Projects, expiry \in ExpiryInputs : CreateCachedContent(projectId, expiry)
  \/ \E timer \in cleanupTimers : CleanupTimerFires(timer)
  \/ \E projectId \in Projects, pageSize \in PageSizes : ListFirstPage(projectId, pageSize)
  \/ ListNextPage

SpecList == Init /\ [][NextList]_vars

\* the listing has read a page without a nextPageToken
listingDone == listing.active /\ listing.pageToken = Absent

occurrences(seq, x) == Cardinality({ i \in 1..Len(seq) : seq[i] = x })

\* the entries of the listed project that were stored and unexpired when the
\* listing began and still are
listedThroughout ==
  { id \in CacheIds :
      /\ listing.store[id] # Absent
      /\ listing.store[id][1].project = listing.projectId
      /\ ~isExpired(listing.store[id][1], listing.at)
      /\ cache[id] = listing.store[id]
      /\ ~isExpired(cache[id][1], now) }

\* C24: a listing that starts without a token and follows each nextPageToken
\* to a page without one has returned every unexpired entry of the project
\* exactly once.
C24_PagedListingIsComplete ==
  listingDone
    => /\ \A id \in listedThroughout : occurrences(listing.seen, id) = 1
       /\ \A id \in CacheIds : occurrences(listing.seen, id) <= 1

\* the generation routes, with a cached-content entry to refer to
NextGen ==
  \/ \E request \in GenerateRequests, modelName \in RequestModels :
       GenerateContent(request, modelName)
  \/ \E text \in InputTexts, modelName \in RequestModels : CountTokens(text, modelName)
  \/ \E text \in InputTexts, modelName \in RequestModels : EmbedContent(text, modelName)
  \/ \E texts \in EmbedBatches, modelName \in RequestModels :
       BatchEmbedContents(texts, modelName)
  \/ CreateCachedContent("p1", [expireTime |-> Absent, ttl |-> Absent])

SpecGen == Init /\ [][NextGen]_vars

(***************************************************************************)
(* Preset management (admin routes of the Vertex AI service; the same      *)
(* methods of the Google AI service).                                      *)
(***************************************************************************)
MaxPresets == 3

addPresetResponse(presets, preset) == Append(presets, preset)

\* findIndex(p => p.id === id): 0 for -1
findIndex(presets, id) ==
  IF \E i \in 1..Len(presets) : presets[i].id = id
    THEN CHOOSE i \in 1..Len(presets) :
           /\ presets[i].id = id
           /\ \A j \in 1..(i - 1) : presets[j].id # id
    ELSE 0

\* splice(index, 1)
removePresetResponse(presets, id) ==
  LET index == findIndex(presets, id)
  IN IF index = 0 THEN presets
     ELSE SubSeq(presets, 1, index - 1) \o SubSeq(presets, index + 1, Len(presets))

\* presets[index] = { ...presets[index], ...updates }: every field of updates
\* replaces the field of the stored preset, its id included
updatePresetResponse(presets, id, updates) ==
  LET index == findIndex(presets, id)
  IN IF index = 0 THEN presets
     ELSE [presets EXCEPT ![index] =
             [f \in DOMAIN @ |-> IF f \in DOMAIN updates THEN updates[f] ELSE @[f]]]

\* POST /admin/presets
AddPresetResponse(preset) ==
  /\ Len(presetResponses) < MaxPresets
  /\ call' = [op |-> "addPresetResponse", id |-> preset.id]
  /\ IF \E i \in 1..Len(presetResponses) : presetResponses[i].id = preset.id
       THEN /\ reply' = [code |-> 409, status |-> "ALREADY_EXISTS"]
            /\ UNCHANGED presetResponses
       ELSE /\ reply' = [code |-> 201, status |-> "OK"]
            /\ presetResponses' = addPresetResponse(presetResponses, preset)
  /\ UNCHANGED <<googleAIPresetResponses, defaultFallbackResponse, instructions,
                 cacheVars, now, batchVars, served, listing>>

\* GoogleAIService.addPresetResponse
GoogleAIAddPresetResponse(preset) ==
  /\ Len(googleAIPresetResponses) < MaxPresets
  /\ call' = [op |-> "googleAIAddPresetResponse", id |-> preset.id]
  /\ reply' = NoReply
  /\ googleAIPresetResponses' = addPresetResponse(googleAIPresetResponses, preset)
  /\ UNCHANGED <<presetResponses, defaultFallbackResponse, instructions,
                 cacheVars, now, batchVars, served, listing>>

(***************************************************************************)
(* Streaming routes.                                                       *)
(***************************************************************************)
\* a query the thinking service judges complex
ComplexText == <<"w","h","y","?","?">>
PlainText == <<"a","b","c">>

StreamRequests ==
  { makeRequest(text, si, Absent, <<>>) :
      text \in {W_hello, W_py, ComplexText, PlainText}, si \in RequestInstructions }

\* a preset whose response has two text parts
TwoPartPreset ==
  [id |-> "two-part",
   trigger |-> [type |-> "contains", value |-> PlainText],
   response |-> Response(<<TextPart(<<"x"," ","y">>), TextPart(<<"z">>)>>,
                         UsageMetadata(1, 1, 2))]

\* POST ...:streamGenerateContent (Vertex AI): the increments written
StreamGenerateContent(request, modelName) ==
  \E r \in { generateContent(request, modelName, presetResponses,
                               defaultFallbackResponse, cache, instructions, now) } :
     /\ served < MaxRequests
     /\ \A i \in 1..Len(r.presets) : withinBounds(r.presets[i].response)
     /\ withinBounds(r.fallback)
     /\ served' = served + 1
     /\ presetResponses' = r.presets
     /\ defaultFallbackResponse' = r.fallback
     /\ cache' = r.cache
     /\ call' = [op |-> "streamGenerateContent", request |-> request,
                 modelName |-> modelName]
     /\ reply' = IF r.error # "" THEN routeError(r.error)
                 ELSE [code |-> 200, status |-> "OK", error |-> "",
                       chunks |-> streamGenerateContent(r.response[1])]
     /\ UNCHANGED <<googleAIPresetResponses, instructions, cacheIdCounter, cleanupTimers,
                    now, batchVars, listing>>

\* POST /v1beta/models/:model:streamGenerateContent (Google AI)
GoogleAIStreamGenerateContent(request, modelName) ==
  \E r \in { googleAIGenerateContent(request, modelName, googleAIPresetResponses,
                                       defaultFallbackResponse, instructions) } :
     /\ served < MaxRequests
     /\ served' = served + 1
     /\ call' = [op |-> "googleAIStreamGenerateContent", request |-> request,
                 modelName |-> modelName]
     /\ reply' = IF r.error # "" THEN routeError(r.error)
                 ELSE [code |-> 200, status |-> "OK", error |-> "",
                       chunks |-> googleAIStreamGenerateContent(r.response[1])]
     /\ UNCHANGED <<genVars, cacheVars, now, batchVars, listing>>

NextStream ==
  \/ \E request \in StreamRequests, modelName \in RequestModels :
       StreamGenerateContent(request, modelName)
  \/ \E request \in StreamRequests, modelName \in RequestModels :
       GoogleAIStreamGenerateContent(request, modelName)
  \/ AddPresetResponse(TwoPartPreset)
  \/ GoogleAIAddPresetResponse(TwoPartPreset)

SpecStream == Init /\ [][NextStream]_vars

(***************************************************************************)
(* Streaming: the claims.                                                  *)
(***************************************************************************)
streamOps == {"streamGenerateContent", "googleAIStreamGenerateContent"}

\* C11: in a streamed response, the final increment carries finishReason
\* STOP and usage metadata, and no earlier increment carries either.
C11_OnlyFinalIncrementStops ==
  (call.op \in streamOps /\ reply.code = 200)
    => \A n \in 1..Len(reply.chunks) :
         /\ reply.chunks[n].finishReason = "STOP" <=> n = Len(reply.chunks)
         /\ reply.chunks[n].usageMetadata # Absent <=> n = Len(reply.chunks)

\* the text of a complete response: the texts of its text parts
responseText(response) == extractTextFromResponse(response)

\* C12: the text of the final streamed increment equals the text of the
\* response that non-streaming generateContent returns for the same request
\* in the same state.
C12_FinalIncrementIsWholeText ==
  [][/\ (call'.op = "streamGenerateContent" /\ reply'.code = 200
          /\ Len(reply'.chunks) > 0)
        => reply'.chunks[Len(reply'.chunks)].text =
             responseText(generateContent(call'.request, call'.modelName, presetResponses,
                            defaultFallbackResponse, cache, instructions, now).response[1])
     /\ (call'.op = "googleAIStreamGenerateContent" /\ reply'.code = 200
          /\ Len(reply'.chunks) > 0)
        => reply'.chunks[Len(reply'.chunks)].text =
             responseText(googleAIGenerateContent(call'.request, call'.modelName,
                            googleAIPresetResponses, defaultFallbackResponse,
                            instructions).response[1])]_vars

(***************************************************************************)
(* Trigger matching on both services, over a preset table that the preset  *)
(* management methods change.                                              *)
(***************************************************************************)
CannedResponse == Response(<<TextPart(<<"o","k">>)>>, UsageMetadata(1, 1, 2))

TextTrigger == [type |-> "text", value |-> <<"H","i">>]
ContainsTrigger == [type |-> "contains", value |-> <<"h","i">>]
RegexTrigger == [type |-> "regex", value |-> <<"i","!">>]
InvalidRegexTrigger == [type |-> "regex", value |-> InvalidPattern]

\* request bodies of POST /admin/presets
MatchPresets ==
  { [id |-> "exact", trigger |-> TextTrigger, response |-> CannedResponse],
    [id |-> "part", trigger |-> ContainsTrigger, response |-> CannedResponse],
    [id |-> "pattern", trigger |-> RegexTrigger, response |-> CannedResponse],
    [id |-> "invalid", trigger |-> InvalidRegexTrigger, response |-> CannedResponse] }

\* the presets handed to GoogleAIService.addPresetResponse
GoogleAIMatchPresets == { preset \in MatchPresets : preset.id # "pattern" }

DefaultPresetIds == {"greeting", "code-execution"}

\* request bodies of PUT /admin/presets/:id
PresetUpdates == { [trigger |-> TextTrigger] }

MatchInputs ==
  { <<"h","i">>, <<"h","i","!">>, <<"a","b","c">>, W_hello }

\* DELETE /admin/presets/:id
RemovePresetResponse(id) ==
  /\ call' = [op |-> "removePresetResponse", id |-> id]
  /\ reply' = IF findIndex(presetResponses, id) = 0
                THEN [code |-> 404, status |-> "NOT_FOUND"]
                ELSE [code |-> 200, status |-> "OK"]
  /\ presetResponses' = removePresetResponse(presetResponses, id)
  /\ UNCHANGED <<googleAIPresetResponses, defaultFallbackResponse, instructions,
                 cacheVars, now, batchVars, served, listing>>

\* PUT /admin/presets/:id
UpdatePresetResponse(id, updates) ==
  /\ call' = [op |-> "updatePresetResponse", id |-> id]
  /\ reply' = IF findIndex(presetResponses, id) = 0
                THEN [code |-> 404, status |-> "NOT_FOUND"]
                ELSE [code |-> 200, status |-> "OK"]
  /\ presetResponses' = updatePresetResponse(presetResponses, id, updates)
  /\ UNCHANGED <<googleAIPresetResponses, defaultFallbackResponse, instructions,
                 cacheVars, now, batchVars, served, listing>>

\* GoogleAIService.removePresetResponse
GoogleAIRemovePresetResponse(id) ==
  /\ call' = [op |-> "googleAIRemovePresetResponse", id |-> id]
  /\ reply' = NoReply
  /\ googleAIPresetResponses' = removePresetResponse(googleAIPresetResponses, id)
  /\ UNCHANGED <<presetResponses, defaultFallbackResponse, instructions,
                 cacheVars, now, batchVars, served, listing>>

\* MockGeminiService.findMatchingPreset(inputText), as generateContent calls it
FindMatchingPreset(inputText) ==
  /\ call' = [op |-> "findMatchingPreset", inputText |-> inputText]
  /\ reply' = [code |-> 200, index |-> findMatchingPreset(presetResponses, inputText),
               thrown |-> FALSE]
  /\ UNCHANGED <<genVars, cacheVars, now, batchVars, served, listing>>

\* GoogleAIService.findMatchingPreset(inputText), as generateContent calls it;
\* an exception leaves generateContent and the route answers 500
GoogleAIFindMatchingPreset(inputText) ==
  \E found \in { googleAIFindMatchingPreset(googleAIPresetResponses, inputText) } :
     /\ call' = [op |-> "googleAIFindMatchingPreset", inputText |-> inputText]
     /\ reply' = [code |-> IF found.thrown THEN 500 ELSE 200,
                  index |-> found.index, thrown |-> found.thrown]
     /\ UNCHANGED <<genVars, cacheVars, now, batchVars, served, listing>>

NextMatch ==
  \/ \E inputText \in MatchInputs : FindMatchingPreset(inputText)
  \/ \E inputText \in MatchInputs : GoogleAIFindMatchingPreset(inputText)
  \/ \E preset \in MatchPresets : AddPresetResponse(preset)
  \/ \E preset \in GoogleAIMatchPresets : GoogleAIAddPresetResponse(preset)
  \/ \E id \in DefaultPresetIds : RemovePresetResponse(id)
  \/ \E id \in DefaultPresetIds, updates \in PresetUpdates : UpdatePresetResponse(id, updates)
  \/ \E id \in DefaultPresetIds : GoogleAIRemovePresetResponse(id)

SpecMatch == Init /\ [][NextMatch]_vars

(***************************************************************************)
(* The admin routes over one service's preset table.                       *)
(***************************************************************************)
\* request bodies of PUT /admin/presets/:id, one of them with an id
AdminUpdates == PresetUpdates \cup { [id |-> "greeting"] }

AdminPresetIds == DefaultPresetIds \cup { preset.id : preset \in MatchPresets }

NextAdmin ==
  \/ \E preset \in MatchPresets : AddPresetResponse(preset)
  \/ \E id \in AdminPresetIds : RemovePresetResponse(id)
  \/ \E id \in AdminPresetIds, updates \in AdminUpdates : UpdatePresetResponse(id, updates)

SpecAdmin == Init /\ [][NextAdmin]_vars

\* C22: the ids of the presets of a service's table are pairwise different at
\* all times, under any sequence of admin create, update and delete requests.
C22_PresetIdsUnique ==
  \A i, j \in 1..Len(presetResponses) :
     i # j => presetResponses[i].id # presetResponses[j].id

(***************************************************************************)
(* Two services made by createMockGeminiService.  createDefaultConfig      *)
(* gives each service a new array of the preset objects of                 *)
(* defaultPresetResponses, and both services answer an unmatched request   *)
(* from the module's defaultFallbackResponse.  The first service is the    *)
(* one of the routes above; the second one keeps the table it was made     *)
(* with.  Here the first service's table is only appended to and updated   *)
(* without a response, so the response objects of the default presets stay *)
(* at their positions in its table.                                        *)
(***************************************************************************)
\* the table of the second service: the default presets, with the response
\* objects they share with the first service's table
secondPresetsOf(presets) ==
  [i \in 1..Len(defaultPresetResponses) |->
     [defaultPresetResponses[i] EXCEPT !.response = presets[i].response]]

secondPresetResponses == secondPresetsOf(presetResponses)

InstanceTexts == { W_hello, W_py, <<"a","b","c">> }
InstanceRequests == { makeRequest(text, Absent, Absent, <<>>) : text \in InstanceTexts }
InstanceModels == { "", "gemini-1.5-pro" }

\* service2.generateContent(request, modelName)
SecondGenerateContent(request, modelName) ==
  \E r \in { generateContent(request, modelName, secondPresetResponses,
                               defaultFallbackResponse, cache, instructions, now) } :
     /\ served < MaxRequests
     /\ \A i \in 1..Len(r.presets) : withinBounds(r.presets[i].response)
     /\ withinBounds(r.fallback)
     /\ served' = served + 1
     /\ presetResponses' =
          [i \in 1..Len(presetResponses) |->
             IF i <= Len(r.presets)
               THEN [presetResponses[i] EXCEPT !.response = r.presets[i].response]
               ELSE presetResponses[i]]
     /\ defaultFallbackResponse' = r.fallback
     /\ cache' = r.cache
     /\ call' = [op |-> "secondGenerateContent", request |-> request,
                 modelName |-> modelName]
     /\ reply' = IF r.error # "" THEN routeError(r.error)
                 ELSE [code |-> 200, status |-> "OK", error |-> "", response |-> r.response]
     /\ UNCHANGED <<googleAIPresetResponses, instructions, cacheIdCounter, cleanupTimers,
                    now, batchVars, listing>>

NextInstances ==
  \/ \E request \in InstanceRequests, modelName \in InstanceModels :
       GenerateContent(request, modelName)
  \/ \E request \in InstanceRequests, modelName \in InstanceModels :
       SecondGenerateContent(request, modelName)
  \/ \E preset \in MatchPresets : AddPresetResponse(preset)
  \/ \E id \in DefaultPresetIds, updates \in PresetUpdates : UpdatePresetResponse(id, updates)

SpecInstances == Init /\ [][NextInstances]_vars

\* what the second service returns for a request, given the shared objects
secondResponse(request, modelName, presets, fallback) ==
  generateContent(request, modelName, secondPresetsOf(presets), fallback,
                  cache, instructions, now).response

firstServiceOps == { "generateContent", "addPresetResponse", "updatePresetResponse" }

\* C23: no request served by the first service and no preset change made on
\* it alters the response the second service returns for any request.
C23_InstancesAreIndependent ==
  [][call'.op \in firstServiceOps
       => \A request \in InstanceRequests, modelName \in InstanceModels :
            secondResponse(request, modelName, presetResponses', defaultFallbackResponse')
              = secondResponse(request, modelName, presetResponses,
                               defaultFallbackResponse)]_vars

(***************************************************************************)
(* Trigger matching: the claims.                                           *)
(***************************************************************************)
matchOps == {"findMatchingPreset", "googleAIFindMatchingPreset"}

\* the preset table the matcher called last has read
matchedTable ==
  IF call.op = "findMatchingPreset" THEN presetResponses ELSE googleAIPresetResponses

\* C13: on both API surfaces, a preset whose trigger type is `text` is
\* selected only when the whole input text equals the trigger value ignoring
\* case; input that merely contains the value does not select it.
C13_TextTriggerNeedsWholeInput ==
  (call.op \in matchOps /\ reply.index > 0
     /\ matchedTable[reply.index].trigger.type = "text")
    => toLowerCase(call.inputText) = toLowerCase(matchedTable[reply.index].trigger.value)

\* what the trigger rules say of one trigger and one input
triggerMatches(trigger, inputText) ==
  CASE trigger.type = "text" -> toLowerCase(inputText) = toLowerCase(trigger.value)
    [] trigger.type = "contains" -> includes(toLowerCase(inputText), toLowerCase(trigger.value))
    [] trigger.type = "regex" ->
         /\ trigger.value # InvalidPattern
         /\ includes(toLowerCase(inputText), toLowerCase(trigger.value))
    [] OTHER -> FALSE

isInvalidRegex(preset) ==
  preset.trigger.type = "regex" /\ preset.trigger.value = InvalidPattern

\* C14: on both API surfaces, a preset whose regex trigger value is not a
\* valid pattern is skipped: it never makes the request fail, and the
\* presets after it in the table are still tried.
C14_InvalidRegexIsSkipped ==
  (call.op \in matchOps)
    => \A i \in 1..Len(matchedTable) :
         isInvalidRegex(matchedTable[i])
           => /\ ~reply.thrown
              /\ reply.code = 200
              /\ reply.index # i
              /\ (\E j \in (i + 1)..Len(matchedTable) :
                    triggerMatches(matchedTable[j].trigger, call.inputText))
                   => reply.index > 0

\* C15: when the triggers of several presets match the input text, the
\* preset that comes first in table order is the one selected.
C15_FirstMatchInTableOrderWins ==
  (call.op \in matchOps)
    => LET matching == {i \in 1..Len(matchedTable) :
                          triggerMatches(matchedTable[i].trigger, call.inputText)}
       IN Cardinality(matching) > 1
            => /\ reply.index \in matching
               /\ \A i \in matching : reply.index <= i

(***************************************************************************)
(* Schema-driven value generator (generateObjectFromSchema and the         *)
(* generate*Value methods).  A schema is [type, enum, properties,          *)
(* required, items, nullable]: properties is absent or a sequence of       *)
(* [key, schema] in declaration order, items is absent or a schema.        *)
(* A value is [kind, num, str, keys, vals].  Math.random() is k /          *)
(* RandomSteps for a k of Random; an operator that draws returns the set   *)
(* of the values it can return.                                            *)
(***************************************************************************)
RandomSteps == 5
Random == 0..(RandomSteps - 1)

MaxDepth == 10

Schema(type, enum, properties, required, items, nullable) ==
  [type |-> type, enum |-> enum, properties |-> properties, required |-> required,
   items |-> items, nullable |-> nullable]

Value(kind, num, str, keys, vals) ==
  [kind |-> kind, num |-> num, str |-> str, keys |-> keys, vals |-> vals]
NullValue == Value("null", 0, "", <<>>, <<>>)
StringValue(s) == Value("string", 0, s, <<>>, <<>>)

W_recipe == <<"r","e","c","i","p","e">>
W_cookie == <<"c","o","o","k","i","e">>
W_character == <<"c","h","a","r","a","c","t","e","r">>
W_name == <<"n","a","m","e">>
W_age == <<"a","g","e">>

PositiveWords == { <<"l","o","v","e">>, <<"g","r","e","a","t">>,
                   <<"e","x","c","e","l","l","e","n","t">>, <<"a","m","a","z","i","n","g">> }
NegativeWords == { <<"h","a","t","e">>, <<"b","a","d">>,
                   <<"t","e","r","r","i","b","l","e">>, <<"a","w","f","u","l">> }
DramaWords == { <<"d","r","a","m","a">>, <<"s","e","r","i","o","u","s">>,
                <<"e","m","o","t","i","o","n">> }
ComedyWords == { <<"c","o","m","e","d","y">>, <<"f","u","n","n","y">>, <<"h","u","m","o","r">> }
DocumentaryWords == { <<"d","o","c","u","m","e","n","t","a","r","y">>,
                      <<"f","a","c","t","u","a","l">>,
                      <<"r","e","a","l","-","l","i","f","e">> }
DamagedWords == { <<"t","e","a","r">>, <<"b","r","o","k","e","n">>, <<"d","a","m","a","g","e">> }
NewWords == { <<"n","e","w">> }
UsedWords == { <<"u","s","e","d">> }

includesAny(input, words) == \E w \in words : includes(input, w)
enumIncludes(enum, value) == \E i \in 1..Len(enum) : enum[i] = value

generateEnumResponse(schema, inputText) ==
  LET enum == schema.enum
      input == toLowerCase(inputText)
      sentiment == enumIncludes(enum, "POSITIVE") /\ enumIncludes(enum, "NEGATIVE")
  IN IF Len(enum) = 0 THEN "UNKNOWN"
     ELSE IF sentiment /\ includesAny(input, PositiveWords) THEN "POSITIVE"
     ELSE IF sentiment /\ includesAny(input, NegativeWords) THEN "NEGATIVE"
     ELSE IF sentiment /\ enumIncludes(enum, "NEUTRAL") THEN "NEUTRAL"
     ELSE IF enumIncludes(enum, "drama") /\ includesAny(input, DramaWords) THEN "drama"
     ELSE IF enumIncludes(enum, "comedy") /\ includesAny(input, ComedyWords) THEN "comedy"
     ELSE IF enumIncludes(enum, "documentary") /\ includesAny(input, DocumentaryWords)
       THEN "documentary"
     ELSE IF enumIncludes(enum, "damaged") /\ includesAny(input, DamagedWords) THEN "damaged"
     ELSE IF enumIncludes(enum, "new in package") /\ includesAny(input, NewWords)
       THEN "new in package"
     ELSE IF enumIncludes(enum, "used") /\ includesAny(input, UsedWords) THEN "used"
     ELSE enum[1]

recipeNames ==
  <<"Chocolate Chip Cookies", "Oatmeal Raisin Cookies", "Sugar Cookies", "Snickerdoodles",
    "Peanut Butter Cookies">>
names == <<"Alex", "Jordan", "Casey", "Riley", "Morgan", "Taylor", "Avery", "Quinn">>

\* list[Math.floor(Math.random() * list.length)] for the draw k
pick(list, k) == list[((k * Len(list)) \div RandomSteps) + 1]

generateStringValue(schema, inputText) ==
  LET input == toLowerCase(inputText)
  IN IF Len(schema.enum) > 0 THEN { StringValue(generateEnumResponse(schema, inputText)) }
     ELSE IF includes(input, W_recipe) \/ includes(input, W_cookie)
       THEN { StringValue(pick(recipeNames, k)) : k \in Random }
     ELSE IF includes(input, W_character) \/ includes(input, W_name)
       THEN { StringValue(pick(names, k)) : k \in Random }
     ELSE { StringValue("Generated string value") }

generateIntegerValue(schema, inputText) ==
  IF includes(toLowerCase(inputText), W_age)
    THEN { Value("integer", ((k * (80 - 18 + 1)) \div RandomSteps) + 18, "", <<>>, <<>>) :
             k \in Random }
    ELSE { Value("integer", (k * (100 - 0 + 1)) \div RandomSteps + 0, "", <<>>, <<>>) :
             k \in Random }

\* Math.random() * (max - min) + min; the draws of the model give whole numbers
generateNumberValue(schema, inputText) ==
  { Value("number", (k * (100 - 0)) \div RandomSteps + 0, "", <<>>, <<>>) : k \in Random }

\* Math.random() > 0.5; num 1 for true
generateBooleanValue(schema, inputText) ==
  { Value("boolean", IF 2 * k > RandomSteps THEN 1 ELSE 0, "", <<>>, <<>>) : k \in Random }

\* isRequired || Math.random() > 0.3, never including a property that is
\* only required
includePropertyByChance(isRequired, k) == 10 * k > 3 * RandomSteps

\* isRequired || Math.random() > 0.3
includeProperty(isRequired, k) == isRequired \/ 10 * k > 3 * RandomSteps

RECURSIVE generateObjectFromSchema(_, _, _)
RECURSIVE generateArrayValue(_, _, _)
RECURSIVE generateObjectValue(_, _, _)
RECURSIVE objectEntries(_, _, _, _)

\* the loop of generateObjectValue over the rest `properties` of the
\* entries: the [keys, vals] it can add to the result
objectEntries(schema, properties, inputText, depth) ==
  IF Len(properties) = 0 THEN { [keys |-> <<>>, vals |-> <<>>] }
  ELSE
    LET key == Head(properties).key
        propSchema == Head(properties).schema
        isRequired == key \in schema.required
        isNullable == propSchema.nullable
        nothing == [keys |-> <<>>, vals |-> <<>>]
    IN { [keys |-> f.keys \o r.keys, vals |-> f.vals \o r.vals] :
           f \in UNION { { IF ~includeProperty(isRequired, k) THEN nothing
                           \* result[key] = value
                           ELSE IF value.kind # "null" \/ isNullable
                             THEN [keys |-> <<key>>, vals |-> <<value>>]
                           ELSE nothing : k \in Random } :
                         value \in generateObjectFromSchema(propSchema, inputText,
                                                            depth + 1) },
           r \in objectEntries(schema, Tail(properties), inputText, depth) }

generateObjectValue(schema, inputText, depth) ==
  IF schema.properties = Absent THEN { Value("object", 0, "", <<>>, <<>>) }
  ELSE { Value("object", 0, "", e.keys, e.vals) :
           e \in objectEntries(schema, schema.properties[1], inputText, depth) }

generateArrayValue(schema, inputText, depth) ==
  IF schema.items = Absent THEN { Value("array", 0, "", <<>>, <<>>) }
  ELSE UNION { { Value("array", 0, "", <<>>, items) :
                   items \in [1..(((k * (5 - 1 + 1)) \div RandomSteps) + 1) ->
                                generateObjectFromSchema(schema.items[1], inputText,
                                                         depth + 1)] } :
               k \in Random }

generateObjectFromSchema(schema, inputText, depth) ==
  IF depth > MaxDepth THEN { NullValue }
  ELSE CASE schema.type = "STRING" -> generateStringValue(schema, inputText)
         [] schema.type = "INTEGER" -> generateIntegerValue(schema, inputText)
         [] schema.type = "NUMBER" -> generateNumberValue(schema, inputText)
         [] schema.type = "BOOLEAN" -> generateBooleanValue(schema, inputText)
         [] schema.type = "ARRAY" -> generateArrayValue(schema, inputText, depth)
         [] schema.type = "OBJECT" -> generateObjectValue(schema, inputText, depth)
         [] OTHER -> { NullValue }

(***************************************************************************)
(* Structured output: the schemas requested and the generator's step.      *)
(***************************************************************************)
MaxSchemaDepth == 12

StringSchema == Schema("STRING", <<>>, Absent, {}, Absent, FALSE)
NullableStringSchema == Schema("STRING", <<>>, Absent, {}, Absent, TRUE)
IntegerSchema == Schema("INTEGER", <<>>, Absent, {}, Absent, FALSE)
NumberSchema == Schema("NUMBER", <<>>, Absent, {}, Absent, FALSE)
BooleanSchema == Schema("BOOLEAN", <<>>, Absent, {}, Absent, FALSE)
SentimentSchema ==
  Schema("STRING", <<"POSITIVE", "NEGATIVE", "NEUTRAL">>, Absent, {}, Absent, FALSE)
ArraySchema(items) == Schema("ARRAY", <<>>, Absent, {}, Some(items), FALSE)
ObjectSchema(properties, required) ==
  Schema("OBJECT", <<>>, Some(properties), required, Absent, FALSE)

\* the schema of the test 'should generate JSON response with schema'
ProfileSchema ==
  ObjectSchema(<< [key |-> "name", schema |-> StringSchema],
                  [key |-> "age", schema |-> IntegerSchema],
                  [key |-> "occupation", schema |-> StringSchema] >>,
               {"name", "age"})

LeafSchemas ==
  { StringSchema, NullableStringSchema, IntegerSchema, NumberSchema, BooleanSchema,
    SentimentSchema, ArraySchema(BooleanSchema), ProfileSchema }

\* n objects, each the required property `child` of the one around it,
\* around the schema leaf
RECURSIVE nested(_, _)
nested(n, leaf) ==
  IF n = 0 THEN leaf
  ELSE ObjectSchema(<< [key |-> "child", schema |-> nested(n - 1, leaf)] >>, {"child"})

\* nesting depths: shallow ones and those around the recursion guard
SchemaDepths == {0, 1, 3} \cup (MaxDepth - 1)..MaxSchemaDepth

ResponseSchemas == { nested(n, leaf) : n \in SchemaDepths, leaf \in LeafSchemas }

SchemaInputs == { PlainText, W_name }

\* generateJsonResponse: the value generateObjectFromSchema returns for
\* request.generationConfig.responseSchema
GenerateObjectFromSchema(schema, inputText) ==
  \E value \in generateObjectFromSchema(schema, inputText, 0) :
     /\ call' = [op |-> "generateObjectFromSchema", schema |-> schema,
                 inputText |-> inputText]
     /\ reply' = [code |-> 200, value |-> value]
     /\ UNCHANGED <<genVars, cacheVars, now, batchVars, served, listing>>

NextSchema ==
  \E schema \in ResponseSchemas, inputText \in SchemaInputs :
     GenerateObjectFromSchema(schema, inputText)

SpecSchema == Init /\ [][NextSchema]_vars

(***************************************************************************)
(* Structured output: the claims.                                          *)
(***************************************************************************)
\* the schema of the property `key` of an object schema
propertySchema(schema, key) ==
  LET properties == schema.properties[1]
  IN properties[CHOOSE i \in 1..Len(properties) : properties[i].key = key].schema

\* every object value of `value` that lies less than `limit` levels below
\* the root holds every key of its schema's `required`
RECURSIVE holdsRequired(_, _, _, _)
holdsRequired(schema, value, depth, limit) ==
  CASE value.kind = "object" ->
         /\ depth < limit
              => \A key \in schema.required :
                   \E i \in 1..Len(value.keys) : value.keys[i] = key
         /\ \A i \in 1..Len(value.keys) :
              holdsRequired(propertySchema(schema, value.keys[i]), value.vals[i],
                            depth + 1, limit)
    [] value.kind = "array" ->
         \A i \in 1..Len(value.vals) :
           holdsRequired(schema.items[1], value.vals[i], depth + 1, limit)
    [] OTHER -> TRUE

\* C16 (as stated): for any schema tree, however deeply nested, every object
\* value the generator produces contains every key of its schema's
\* `required`.
C16_RequiredKeysAtAnyDepth ==
  (call.op = "generateObjectFromSchema")
    => holdsRequired(call.schema, reply.value, 0, MaxSchemaDepth + 2)

\* C16 (amended): every object value the generator produces less than
\* MaxDepth levels below the root contains every key of its schema's
\* `required`; an object MaxDepth levels down loses the required properties
\* that are not nullable, whose values the recursion guard makes null.
C16_RequiredKeysAboveMaxDepth ==
  (call.op = "generateObjectFromSchema")
    => holdsRequired(call.schema, reply.value, 0, MaxDepth)

\* a profile nested three objects deep came back with its optional property left out
C16_Witness ==
  /\ call.op = "generateObjectFromSchema"
  /\ call.schema = nested(3, ProfileSchema)
  /\ reply.value.kind = "object"
  /\ LET profile == reply.value.vals[1].vals[1].vals[1]
     IN profile.keys = <<"name", "age">>

(***************************************************************************)
(* Output trimming on both services, applied to texts and to responses.    *)
(***************************************************************************)
MaxTrimLen == 7

\* every text of words of "a" up to MaxTrimLen characters
TrimTexts == UNION { [1..n -> {"a", " "}] : n \in 0..MaxTrimLen }

\* model.outputTokenLimit, truthy
TokenLimits == {SmallOutputTokenLimit, 2}

TrimResponses ==
  { defaultPresetResponses[1].response, defaultPresetResponses[2].response,
    InitialFallbackResponse,
    Response(<<TextPart(<<"a","a","a"," ","a","a">>), TextPart(<<"a","a"," ","a","a","a">>)>>,
             UsageMetadata(1, 3, 4)) }

\* MockGeminiService.trimTextToTokenLimit
TrimTextToTokenLimit(text, tokenLimit) ==
  /\ call' = [op |-> "trimTextToTokenLimit", text |-> text, tokenLimit |-> tokenLimit]
  /\ reply' = [code |-> 200, text |-> trimTextToTokenLimit(text, tokenLimit)]
  /\ UNCHANGED <<genVars, cacheVars, now, batchVars, served, listing>>

\* GoogleAIService.trimTextToTokenLimit
GoogleAITrimTextToTokenLimit(text, tokenLimit) ==
  /\ call' = [op |-> "googleAITrimTextToTokenLimit", text |-> text,
              tokenLimit |-> tokenLimit]
  /\ reply' = [code |-> 200, text |-> googleAITrimTextToTokenLimit(text, tokenLimit)]
  /\ UNCHANGED <<genVars, cacheVars, now, batchVars, served, listing>>

\* MockGeminiService.trimResponseToTokenLimit
TrimResponseToTokenLimit(response, tokenLimit) ==
  /\ call' = [op |-> "trimResponseToTokenLimit", response |-> response,
              tokenLimit |-> tokenLimit]
  /\ reply' = [code |-> 200, response |-> trimResponseToTokenLimit(response, tokenLimit)]
  /\ UNCHANGED <<genVars, cacheVars, now, batchVars, served, listing>>

\* GoogleAIService.trimResponseToTokenLimit, of a converted response
GoogleAITrimResponseToTokenLimit(response, tokenLimit) ==
  /\ call' = [op |-> "googleAITrimResponseToTokenLimit", response |-> response,
              tokenLimit |-> tokenLimit]
  /\ reply' = [code |-> 200,
               response |-> googleAITrimResponseToTokenLimit(response, tokenLimit)]
  /\ UNCHANGED <<genVars, cacheVars, now, batchVars, served, listing>>

NextTrim ==
  \/ \E text \in TrimTexts, tokenLimit \in TokenLimits :
       TrimTextToTokenLimit(text, tokenLimit)
  \/ \E text \in TrimTexts, tokenLimit \in TokenLimits :
       GoogleAITrimTextToTokenLimit(text, tokenLimit)
  \/ \E response \in TrimResponses, tokenLimit \in TokenLimits :
       TrimResponseToTokenLimit(response, tokenLimit)
  \/ \E response \in TrimResponses, tokenLimit \in TokenLimits :
       GoogleAITrimResponseToTokenLimit(convertToGoogleAIResponse(response), tokenLimit)

SpecTrim == Init /\ [][NextTrim]_vars

(***************************************************************************)
(* Output trimming: the claims.                                            *)
(***************************************************************************)
trimTextOps == {"trimTextToTokenLimit", "googleAITrimTextToTokenLimit"}
trimResponseOps == {"trimResponseToTokenLimit", "googleAITrimResponseToTokenLimit"}

\* the space-separated words of a text that are not empty
wordsOf(text) == SelectSeq(split(text), LAMBDA word : word # <<>>)

isPrefix(s, t) == Len(s) <= Len(t) /\ SubSeq(t, 1, Len(s)) = s

\* C17: on both API surfaces, output trimming never splits a word: the
\* words of the trimmed text are whole leading words of the original text,
\* unless not even the first word fits the character budget of 4 characters
\* per token.
C17_TrimmingKeepsWholeWords ==
  (call.op \in trimTextOps /\ wordsOf(call.text) # <<>>
     /\ Len(wordsOf(call.text)[1]) <= 4 * call.tokenLimit)
    => isPrefix(wordsOf(reply.text), wordsOf(call.text))

\* C18: on both API surfaces, after output trimming has shortened a
\* response, its candidatesTokenCount equals the estimate of the trimmed
\* text, not the figure it had before.
C18_TrimmedCountIsRecomputed ==
  (call.op \in trimResponseOps /\ reply.response.parts # call.response.parts)
    => reply.response.usageMetadata.candidatesTokenCount
         = estimateTokens(extractTextFromResponse(reply.response))

\* C19: for every text and every output limit, the text that output
\* trimming returns has an estimate ceil(length / 4) no greater than the limit.
C19_TrimmedTextWithinLimit ==
  (call.op \in trimTextOps) => estimateTokens(reply.text) <= call.tokenLimit

\* a text over the limit came back shortened to exactly the limit
C19_Witness ==
  /\ call.op \in trimTextOps
  /\ estimateTokens(call.text) > call.tokenLimit
  /\ reply.text # call.text
  /\ estimateTokens(reply.text) = call.tokenLimit

(***************************************************************************)
(* Embedding routes over the embedding models of the catalog.              *)
(***************************************************************************)
EmbeddingModels ==
  {"text-embedding-004", "multimodalembedding@001", "text-multilingual-embedding-002"}

EmbedTexts ==
  InputTexts \cup {W_name, W_age, W_recipe, W_cookie, W_character, W_brief, W_help,
                    GreetingText, FallbackText}

NextEmbed ==
  \/ \E text \in EmbedTexts, modelName \in EmbeddingModels : EmbedContent(text, modelName)
  \/ \E texts \in EmbedBatches, modelName \in EmbeddingModels :
       BatchEmbedContents(texts, modelName)

SpecEmbed == Init /\ [][NextEmbed]_vars

(***************************************************************************)
(* Embeddings: the claims.                                                 *)
(***************************************************************************)
\* the length the multimodal embedding model's vectors are to have
MultimodalEmbeddingLength == 1408

\* C20: embedContent returns a vector of length 768 when a text embedding
\* model is named and of length 1408 when the multimodal embedding model is
\* named.
C20_EmbeddingLengthByModel ==
  (call.op = "embedContent" /\ reply.code = 200)
    => reply.response[1].length =
         IF call.modelName = "multimodalembedding@001"
           THEN MultimodalEmbeddingLength ELSE EmbeddingLength

(***************************************************************************)
(* Enum mode: generateContent with responseMimeType 'text/x.enum' on both  *)
(* services.                                                                *)
(***************************************************************************)
\* the characters of the strings generateEnumResponse returns
enumChars(value) ==
  CASE value = "POSITIVE" -> <<"P","O","S","I","T","I","V","E">>
    [] value = "NEGATIVE" -> <<"N","E","G","A","T","I","V","E">>
    [] value = "NEUTRAL" -> <<"N","E","U","T","R","A","L">>
    [] value = "drama" -> <<"d","r","a","m","a">>
    [] value = "comedy" -> <<"c","o","m","e","d","y">>
    [] value = "used" -> <<"u","s","e","d">>
    [] value = "new in package" ->
         <<"n","e","w"," ","i","n"," ","p","a","c","k","a","g","e">>
    [] value = "UNKNOWN" -> <<"U","N","K","N","O","W","N">>

\* GoogleAIService.generateEnumResponse
googleAIGenerateEnumResponse(schema, inputText) ==
  LET enum == schema.enum
      input == toLowerCase(inputText)
  IN IF Len(enum) = 0 THEN "UNKNOWN"
     ELSE IF /\ enumIncludes(enum, "POSITIVE")
             /\ includesAny(input, { <<"g","r","e","a","t">>,
                                     <<"a","m","a","z","i","n","g">>, <<"l","o","v","e">> })
       THEN "POSITIVE"
     ELSE IF /\ enumIncludes(enum, "NEGATIVE")
             /\ includesAny(input, { <<"b","a","d">>, <<"t","e","r","r","i","b","l","e">>,
                                     <<"h","a","t","e">> })
       THEN "NEGATIVE"
     ELSE IF enumIncludes(enum, "NEUTRAL") THEN "NEUTRAL"
     ELSE IF enumIncludes(enum, "drama") /\ includesAny(input, DramaWords) THEN "drama"
     ELSE IF enumIncludes(enum, "comedy") /\ includesAny(input, ComedyWords) THEN "comedy"
     ELSE IF enumIncludes(enum, "documentary") /\ includesAny(input, DocumentaryWords)
       THEN "documentary"
     ELSE enum[1]

\* MockGeminiService.generateStructuredResponse for 'text/x.enum': the text
\* of the part it returns
generateStructuredResponse(schema, inputText, model) ==
  LET enumText == enumChars(generateEnumResponse(schema, inputText))
  IN IF model # Absent /\ model[1].outputTokenLimit # 0
       THEN trimTextToTokenLimit(enumText, model[1].outputTokenLimit)
       ELSE enumText

\* GoogleAIService.generateStructuredResponse for 'text/x.enum'
googleAIGenerateStructuredResponse(schema, inputText, model) ==
  LET enumText == enumChars(googleAIGenerateEnumResponse(schema, inputText))
  IN IF model # Absent /\ model[1].outputTokenLimit # 0
       THEN googleAITrimTextToTokenLimit(enumText, model[1].outputTokenLimit)
       ELSE enumText

EnumSchemas ==
  { SentimentSchema,
    Schema("STRING", <<"NEGATIVE", "POSITIVE">>, Absent, {}, Absent, FALSE),
    Schema("STRING", <<"drama", "comedy">>, Absent, {}, Absent, FALSE),
    Schema("STRING", <<"new in package", "used">>, Absent, {}, Absent, FALSE),
    Schema("STRING", <<>>, Absent, {}, Absent, FALSE) }

EnumInputs ==
  { <<"I"," ","l","o","v","e"," ","i","t">>, <<"B","a","d">>, <<"f","u","n","n","y">>,
    <<"u","s","e","d">>, <<"n","e","w">>, PlainText }

EnumModels == { "", "gemini-1.5-pro", "text-embedding-004" }

\* MockGeminiService.generateContent with an enum schema in generationConfig
GenerateEnumContent(schema, text, modelName) ==
  LET inputText == extractTextFromContents(
                     applySystemInstruction(instructions, <<userContent(text)>>,
                                            Absent, modelName))
      model == getModelByName(modelName)
  IN /\ call' = [op |-> "generateEnumContent", schema |-> schema, text |-> text,
                 modelName |-> modelName]
     /\ reply' = IF model # Absent /\ estimateTokens(inputText) > model[1].inputTokenLimit
                   THEN [code |-> 400, status |-> "INVALID_ARGUMENT", text |-> <<>>]
                   ELSE [code |-> 200, status |-> "OK",
                         text |-> generateStructuredResponse(schema, text, model)]
     /\ UNCHANGED <<genVars, cacheVars, now, batchVars, served, listing>>

\* GoogleAIService.generateContent with an enum schema in generationConfig
GoogleAIGenerateEnumContent(schema, text, modelName) ==
  LET model == getGoogleAIModelByName(modelName)
  IN /\ call' = [op |-> "googleAIGenerateEnumContent", schema |-> schema, text |-> text,
                 modelName |-> modelName]
     /\ reply' = IF model # Absent /\ estimateTokens(text) > model[1].inputTokenLimit
                   THEN [code |-> 400, status |-> "INVALID_ARGUMENT", text |-> <<>>]
                   ELSE [code |-> 200, status |-> "OK",
                         text |-> googleAIGenerateStructuredResponse(schema, text, model)]
     /\ UNCHANGED <<genVars, cacheVars, now, batchVars, served, listing>>

NextEnum ==
  \/ \E schema \in EnumSchemas, text \in EnumInputs, modelName \in EnumModels :
       GenerateEnumContent(schema, text, modelName)
  \/ \E schema \in EnumSchemas, text \in EnumInputs, modelName \in EnumModels :
       GoogleAIGenerateEnumContent(schema, text, modelName)

SpecEnum == Init /\ [][NextEnum]_vars

enumOps == { "generateEnumContent", "googleAIGenerateEnumContent" }

C4_GenerateOnlyReadsPresets ==
  [][call'.op = "generateContent"
       => /\ presetResponses' = presetResponses
          /\ defaultFallbackResponse' = defaultFallbackResponse]_vars

\* C21: in every response that generateContent returns, in any sequence of
\* requests, each executable-code part is immediately followed by exactly
\* one code-execution-result part.
C21_CodeFollowedByOneResult ==
  (call.op = "generateContent" /\ reply.code = 200)
    => LET parts == reply.response[1].parts
       IN \A i \in 1..Len(parts) :
            parts[i].kind = "code"
              => /\ i < Len(parts)
                 /\ parts[i + 1].kind = "result"
                 /\ (i + 2 <= Len(parts) => parts[i + 2].kind # "result")

\* C7: when a generateContent request names a cache entry that is stored and
\* unexpired, the usage metadata of the response reports the entry's token
\* count as cachedContentTokenCount and counts it in totalTokenCount.
C7_CachedTokensReported ==
  [][(/\ call'.op = "generateContent"
      /\ call'.request.cachedContent # Absent
      /\ cache[call'.request.cachedContent[1]] # Absent
      /\ ~isExpired(cache[call'.request.cachedContent[1]][1], now)
      /\ reply'.code = 200)
       => LET usage == reply'.response[1].usageMetadata
              entry == cache[call'.request.cachedContent[1]][1]
          IN /\ usage.cachedContentTokenCount = entry.tokenCount
             /\ usage.totalTokenCount =
                  usage.promptTokenCount + usage.candidatesTokenCount
                  + entry.tokenCount]_vars

\* the characters a model admits: 4 x inputTokenLimit
charLimit(modelName) == 4 * getModelByName(modelName)[1].inputTokenLimit

\* the text generateContent validates: cached contents and system
\* instruction prepended to the request's contents, flattened
effectiveText(request, modelName, store, instr, t) ==
  extractTextFromContents(
    applySystemInstruction(instr,
      IF request.cachedContent # Absent
        THEN applyCachedContent(store, request.cachedContent[1], request.contents, t).allContents
        ELSE request.contents,
      request.systemInstruction, modelName))

\* C8 as stated: a generateContent request whose own flattened text is at
\* most 4 x inputTokenLimit characters never fails with TokenLimitError,
\* whatever its other fields and the default system instruction.
C8_RequestTextWithinLimitNeverFails ==
  [][(/\ call'.op = "generateContent"
      /\ getModelByName(call'.modelName) # Absent
      /\ Len(extractTextFromContents(call'.request.contents))
           <= charLimit(call'.modelName))
       => reply'.error # "TokenLimitError"]_vars

\* C8 amended: a request never fails with TokenLimitError when the text the
\* service validates is at most 4 x inputTokenLimit characters: for
\* generateContent the effective text (cached contents, system instruction
\* and request contents), for countTokens and embedContent the request's
\* text, for batchEmbedContents the text of every item.
C8_EffectiveTextWithinLimitNeverFails ==
  [][("modelName" \in DOMAIN call' /\ getModelByName(call'.modelName) # Absent)
       => /\ (/\ call'.op = "generateContent"
              /\ Len(effectiveText(call'.request, call'.modelName, cache, instructions, now))
                   <= charLimit(call'.modelName))
               => reply'.error # "TokenLimitError"
          /\ (/\ call'.op \in {"countTokens", "embedContent"}
              /\ Len(call'.text) <= charLimit(call'.modelName))
               => reply'.error # "TokenLimitError"
          /\ (/\ call'.op = "batchEmbedContents"
              /\ \A n \in 1..Len(call'.texts) :
                   Len(call'.texts[n]) <= charLimit(call'.modelName))
               => reply'.error # "TokenLimitError"]_vars

\* a generateContent request on text-embedding-004 that referred to a cache
\* entry and was answered: its effective text was within the limit
C8_Witness ==
  /\ call.op = "generateContent"
  /\ call.modelName = "text-embedding-004"
  /\ call.request.cachedContent # Absent
  /\ cache[call.request.cachedContent[1]] # Absent
  /\ reply.code = 200

\* the request's own text is longer than the model admits
overLimit(c) ==
  /\ getModelByName(c.modelName) # Absent
  /\ CASE c.op = "generateContent" ->
            Len(extractTextFromContents(c.request.contents)) > charLimit(c.modelName)
       [] c.op \in {"countTokens", "embedContent"} ->
            Len(c.text) > charLimit(c.modelName)
       [] c.op = "batchEmbedContents" ->
            \E n \in 1..Len(c.texts) : Len(c.texts[n]) > charLimit(c.modelName)
       [] OTHER -> FALSE

\* C9: a generate, count, embed or batch-embed request whose text is more
\* than 4 x inputTokenLimit characters (its estimate exceeds the limit) is
\* answered with TokenLimitError, code 400, and no payload, and the preset
\* table and fallback response are untouched.
C9_OverLimitFailsBeforePayload ==
  [][("modelName" \in DOMAIN call' /\ overLimit(call'))
       => /\ reply'.error = "TokenLimitError"
          /\ reply'.code = 400
          /\ reply'.response = Absent
          /\ presetResponses' = presetResponses
          /\ defaultFallbackResponse' = defaultFallbackResponse]_vars

\* an over-long batch-embed request was refused
C9_Witness ==
  /\ call.op = "batchEmbedContents"
  /\ overLimit(call)
  /\ reply.code = 400

(***************************************************************************)
(* Context cache: the claims.                                              *)
(***************************************************************************)
\* C5: an entry whose expireTime is still in the future leaves the store
\* only through deleteCachedContent or clearAllCaches: no cleanup timer, lazy
\* expiry check or cleanup pass removes it, also after updateCachedContent
\* has changed its expireTime.
C5_UnexpiredEntryOnlyLeavesByDelete ==
  [][\A cacheId \in CacheIds :
       (/\ cache[cacheId] # Absent
        /\ cache[cacheId][1].expireTime > now
        /\ cache'[cacheId] = Absent)
         => call'.op \in {"deleteCachedContent", "clearAllCaches"}]_vars

\* C6: when getCachedContent, listCachedContent or applyCachedContent has
\* returned, no expired entry the call came across is still stored: the
\* entry asked for (get, apply), the entries of the project listed (list).
C6_LazyExpiryRemoves ==
  /\ call.op \in {"getCachedContent", "applyCachedContent"}
       => (cache[call.cacheId] = Absent \/ ~isExpired(cache[call.cacheId][1], now))
  /\ call.op = "listCachedContent"
       => \A cacheId \in CacheIds :
            (cache[cacheId] # Absent /\ cache[cacheId][1].project = call.project)
              => ~isExpired(cache[cacheId][1], now)

(***************************************************************************)
(* BatchProcessingService.                                                 *)
(* A job: [requests, responses, status, progress, timeoutHandle, results,  *)
(* i, chunkResults, processing].  results, i and chunkResults are the      *)
(* locals of the processRequestsBatch call the job is waiting on;          *)
(* timeoutHandle is the state of the job's setTimeout callback;            *)
(* processing says processBatchJob has not yet returned.                   *)
(***************************************************************************)
JobIds == 1..MaxJobs

\* requests.slice(i), as the positions it covers: every request that is left
restOf(requests, i) == { k \in 1..Len(requests) : i <= k }

\* requests.slice(i, i + maxConcurrent), as the positions it covers
chunkOf(requests, i) ==
  { k \in 1..Len(requests) : i <= k /\ k < i + maxConcurrentRequests }

\* chunk.map(async ...): one pending promise per request of the chunk
startChunk(job, i) ==
  [job EXCEPT !.i = i,
              !.chunkResults = [k \in chunkOf(job.requests, i) |-> Absent]]

\* submitBatchJob, up to the call of processBatchJob
submitBatchJob(requests) ==
  [requests |-> requests, responses |-> <<>>, status |-> "PENDING",
   progress |-> [total |-> Len(requests), completed |-> 0, failed |-> 0],
   timeoutHandle |-> "none", results |-> <<>>, i |-> 1,
   chunkResults |-> <<>>, processing |-> FALSE]

\* the try block of processBatchJob without its status assignment
finishWithoutStatus(job, responses) ==
  [job EXCEPT !.responses = responses,
              !.progress.completed =
                Cardinality({n \in 1..Len(responses) : responses[n].response # Absent}),
              !.progress.failed =
                Cardinality({n \in 1..Len(responses) : responses[n].error # Absent}),
              !.timeoutHandle = IF @ = "armed" THEN "cleared" ELSE @,
              !.processing = FALSE]

\* processBatchJob, after `await processRequestsBatch`: the try block
finishBatchJob(job, responses) ==
  [job EXCEPT !.responses = responses,
              !.progress.completed =
                Cardinality({n \in 1..Len(responses) : responses[n].response # Absent}),
              !.progress.failed =
                Cardinality({n \in 1..Len(responses) : responses[n].error # Absent}),
              !.status = "COMPLETED",
              !.timeoutHandle = IF @ = "armed" THEN "cleared" ELSE @,
              !.processing = FALSE]

\* afterChunk with the chunk's results pushed last request first
afterChunkReversed(job) ==
  LET chunk == chunkOf(job.requests, job.i)
      first == job.i
      last == job.i + Cardinality(chunk) - 1
      chunkResults == [n \in 1..Cardinality(chunk) |-> job.chunkResults[last - n + 1][1]]
      results == job.results \o chunkResults
      pushed == [job EXCEPT !.results = results]
  IN IF last < Len(job.requests)
       THEN startChunk(pushed, job.i + maxConcurrentRequests)
       ELSE finishBatchJob([pushed EXCEPT !.chunkResults = <<>>], results)

\* processRequestsBatch from the point where every promise of the chunk has
\* settled: push the chunk's results, then the next chunk or the return
afterChunk(job) ==
  LET chunk == chunkOf(job.requests, job.i)
      first == job.i
      last == job.i + Cardinality(chunk) - 1
      chunkResults == [n \in 1..Cardinality(chunk) |-> job.chunkResults[first + n - 1][1]]
      results == job.results \o chunkResults
      pushed == [job EXCEPT !.results = results]
  IN IF last < Len(job.requests)
       THEN startChunk(pushed, job.i + maxConcurrentRequests)
       ELSE finishBatchJob([pushed EXCEPT !.chunkResults = <<>>], results)

\* processBatchJob up to its first await: status, timer, first chunk started
processBatchJob(job) ==
  LET running == [job EXCEPT !.status = "RUNNING", !.timeoutHandle = "armed",
                             !.processing = TRUE]
  IN IF Len(job.requests) = 0
       THEN finishBatchJob(running, <<>>)
       ELSE startChunk(running, 1)

\* the async callback of chunk.map, after generateContent settled
batchResponse(batchRequest, r) ==
  IF r.error = ""
    THEN [id |-> batchRequest.id, response |-> r.response, error |-> Absent]
    ELSE [id |-> batchRequest.id, response |-> Absent,
          error |-> Some([code |-> 500, message |-> r.error, status |-> "INTERNAL"])]

\* cancelBatchJob: may this job be cancelled
cancellable(js, jobId) == jobId \in 1..Len(js) /\ js[jobId].status # "COMPLETED"

(***************************************************************************)
(* Batch routes and the callbacks of a running job.                        *)
(***************************************************************************)
R_ok == [id |-> "a", request |-> makeRequest(W_hello, Absent, Absent, <<>>),
         modelName |-> ""]
R_over == [id |-> "b", request |-> makeRequest(OverLimitText, Absent, Absent, <<>>),
           modelName |-> "text-embedding-004"]

\* one request of each kind alone, and a job of two chunks
BatchRequestLists ==
  { <<R_ok>>, <<R_over>> }
  \cup { [n \in 1..MaxBatchRequests |-> IF n = 2 THEN R_over ELSE R_ok] }

\* POST .../batch
SubmitBatchJob(requests) ==
  /\ Len(jobs) < MaxJobs
  /\ jobs' = Append(jobs, processBatchJob(submitBatchJob(requests)))
  /\ jobIdCounter' = jobIdCounter + 1
  /\ call' = [op |-> "submitBatchJob", jobId |-> jobIdCounter]
  /\ reply' = [code |-> 201, status |-> "PENDING", jobId |-> jobIdCounter]
  /\ UNCHANGED <<genVars, cacheVars, now, cancelled, served, listing>>

\* one generateContent call of the current chunk settles; when it is the last
\* of the chunk, Promise.all resolves and the job moves on in the same turn
RequestSettles(jobId, k) ==
  /\ jobId \in 1..Len(jobs)
  /\ jobs[jobId].processing
  /\ k \in DOMAIN jobs[jobId].chunkResults
  /\ jobs[jobId].chunkResults[k] = Absent
  /\ \E r \in { generateContent(jobs[jobId].requests[k].request,
                                  jobs[jobId].requests[k].modelName,
                                  presetResponses, defaultFallbackResponse,
                                  cache, instructions, now) } :
     \E settled \in { [jobs[jobId] EXCEPT !.chunkResults[k] =
                         Some(batchResponse(jobs[jobId].requests[k], r))] } :
        /\ jobs' = [jobs EXCEPT ![jobId] =
                      IF \A n \in DOMAIN settled.chunkResults : settled.chunkResults[n] # Absent
                        THEN afterChunk(settled) ELSE settled]
        /\ presetResponses' = r.presets
        /\ defaultFallbackResponse' = r.fallback
        /\ cache' = r.cache
  /\ call' = [op |-> "requestSettles", jobId |-> jobId, k |-> k]
  /\ reply' = NoReply
  /\ UNCHANGED <<googleAIPresetResponses, instructions, cacheIdCounter, cleanupTimers, now, jobIdCounter,
                 cancelled, served, listing>>

\* the setTimeout callback of processBatchJob
JobTimeout(jobId) ==
  /\ jobId \in 1..Len(jobs)
  /\ jobs[jobId].timeoutHandle = "armed"
  /\ jobs' = [jobs EXCEPT ![jobId].status = "FAILED", ![jobId].timeoutHandle = "fired"]
  /\ call' = [op |-> "jobTimeout", jobId |-> jobId]
  /\ reply' = NoReply
  /\ UNCHANGED <<genVars, cacheVars, now, jobIdCounter, cancelled, served, listing>>

\* DELETE .../batch/{jobId}
CancelBatchJob(jobId) ==
  /\ call' = [op |-> "cancelBatchJob", jobId |-> jobId]
  /\ IF cancellable(jobs, jobId)
       THEN /\ jobs' = [jobs EXCEPT ![jobId].status = "FAILED"]
            /\ cancelled' = cancelled \cup {jobId}
            /\ reply' = [code |-> 200, status |-> "OK", jobId |-> jobId]
       ELSE /\ reply' = [code |-> 404, status |-> "NOT_FOUND", jobId |-> jobId]
            /\ UNCHANGED <<jobs, cancelled>>
  /\ UNCHANGED <<genVars, cacheVars, now, jobIdCounter, served, listing>>

\* GET .../batch/{jobId}/results
GetBatchJobResults(jobId) ==
  /\ call' = [op |-> "getBatchJobResults", jobId |-> jobId]
  /\ reply' = IF jobId \notin 1..Len(jobs)
                THEN [code |-> 404, status |-> "NOT_FOUND", jobId |-> jobId]
              ELSE IF jobs[jobId].status # "COMPLETED"
                THEN [code |-> 400, status |-> "INVALID_ARGUMENT", jobId |-> jobId]
              ELSE [code |-> 200, status |-> jobs[jobId].status, jobId |-> jobId,
                    progress |-> jobs[jobId].progress,
                    results |-> jobs[jobId].responses]
  /\ UNCHANGED <<genVars, cacheVars, now, batchVars, served, listing>>

NextBatch ==
  \/ \E requests \in BatchRequestLists : SubmitBatchJob(requests)
  \/ \E jobId \in JobIds, k \in 1..MaxBatchRequests : RequestSettles(jobId, k)
  \/ \E jobId \in JobIds : JobTimeout(jobId)
  \/ \E jobId \in JobIds : CancelBatchJob(jobId)
  \/ \E jobId \in JobIds : GetBatchJobResults(jobId)

SpecBatch == Init /\ [][NextBatch]_vars

\* the requests of a job whose generateContent call has not settled yet
inFlight(job) == { k \in DOMAIN job.chunkResults : job.chunkResults[k] = Absent }

\* C26: while a batch job is processed, at most maxConcurrentRequests of its
\* requests are in flight at any time.
C26_InFlightWithinLimit ==
  \A jobId \in 1..Len(jobs) :
     Cardinality(inFlight(jobs[jobId])) <= maxConcurrentRequests

\* C30: the responses of a COMPLETED job correspond one to one and in order
\* to its requests: responses[i].id = requests[i].id for every i, in whatever
\* order the requests settled.
C30_ResponsesFollowRequests ==
  \A jobId \in 1..Len(jobs) :
     jobs[jobId].status = "COMPLETED"
       => /\ Len(jobs[jobId].responses) = Len(jobs[jobId].requests)
          /\ \A i \in 1..Len(jobs[jobId].requests) :
                jobs[jobId].responses[i].id = jobs[jobId].requests[i].id

\* a job of two chunks is COMPLETED, with a response and an error among its
\* results
C30_Witness ==
  \E jobId \in 1..Len(jobs) :
     /\ jobs[jobId].status = "COMPLETED"
     /\ Len(jobs[jobId].requests) > maxConcurrentRequests
     /\ \E i \in 1..Len(jobs[jobId].responses) : jobs[jobId].responses[i].error # Absent
     /\ \E i \in 1..Len(jobs[jobId].responses) : jobs[jobId].responses[i].response # Absent

\* the await of generateContent in chunk.map resumes for request k of the
\* job: the RequestSettles steps, named by the call they record
settles(jobId, k) ==
  /\ jobId \in 1..Len(jobs)
  /\ jobs[jobId].processing
  /\ k \in inFlight(jobs[jobId])
  /\ call' = [op |-> "requestSettles", jobId |-> jobId, k |-> k]

\* every generateContent call of a running job eventually returns or throws,
\* and the event loop then runs the continuation that awaits it
SpecBatchFair ==
  /\ SpecBatch
  /\ \A jobId \in JobIds, k \in 1..MaxBatchRequests : WF_call(settles(jobId, k))

\* C28: every submitted batch job eventually reaches COMPLETED or FAILED,
\* provided every generateContent call of the job eventually returns or
\* throws.
C28_JobEventuallyFinal ==
  \A jobId \in JobIds :
     (jobId <= Len(jobs))
       ~> (jobId <= Len(jobs) /\ jobs[jobId].status \in {"COMPLETED", "FAILED"})

\* a job of two chunks has gone through all its requests and is COMPLETED
C28_Witness ==
  \E jobId \in 1..Len(jobs) :
     /\ ~jobs[jobId].processing
     /\ jobs[jobId].status = "COMPLETED"
     /\ jobs[jobId].progress.total = MaxBatchRequests
     /\ jobs[jobId].progress.completed + jobs[jobId].progress.failed = MaxBatchRequests

\* C29: the status in the response to a batch submit is the status the job
\* has in the job store when the response is produced.
C29_SubmitReportsStoredStatus ==
  (call.op = "submitBatchJob" /\ reply.code = 201)
    => reply.status = jobs[call.jobId].status

\* a job with more requests than the limit has a full chunk in flight
C26_Witness ==
  \E jobId \in 1..Len(jobs) :
     /\ jobs[jobId].processing
     /\ Len(jobs[jobId].requests) > maxConcurrentRequests
     /\ Cardinality(inFlight(jobs[jobId])) = maxConcurrentRequests

(***************************************************************************)
(* Batch jobs: the claims.                                                 *)
(***************************************************************************)
FinalStatuses == {"COMPLETED", "FAILED"}

\* C1: once a job is COMPLETED or FAILED its status never changes again,
\* whatever the order of background processing, cancelBatchJob and the
\* job-level timeout.
C1_StatusNeverLeavesFinal ==
  [][\A jobId \in 1..Len(jobs) :
       jobs[jobId].status \in FinalStatuses
         => jobs'[jobId].status = jobs[jobId].status]_vars

\* C2: a job whose cancellation was accepted (cancelBatchJob returned true,
\* so the job had not completed) stays FAILED, and the results route never
\* answers for it with the results of a COMPLETED job.
C2_CancelledJobStaysFailed ==
  \A jobId \in cancelled :
    /\ jobs[jobId].status = "FAILED"
    /\ ~(call.op = "getBatchJobResults" /\ call.jobId = jobId /\ reply.code = 200)

\* C3: after the job-level timeout has fired the job is FAILED and no step
\* changes its status, its responses or its progress.
C3_TimedOutJobIsFrozen ==
  [][\A jobId \in 1..Len(jobs) :
       jobs[jobId].timeoutHandle = "fired"
         => /\ jobs[jobId].status = "FAILED"
            /\ jobs'[jobId].status = jobs[jobId].status
            /\ jobs'[jobId].responses = jobs[jobId].responses
            /\ jobs'[jobId].progress = jobs[jobId].progress]_vars

\* C10: every TokenLimitError reaches the client as code 400 with status
\* INVALID_ARGUMENT: in the reply of a route and in the per-request errors
\* of a batch job's results.
C10_TokenLimitErrorIs400 ==
  /\ ("error" \in DOMAIN reply /\ reply.error = "TokenLimitError")
       => (reply.code = 400 /\ reply.status = "INVALID_ARGUMENT")
  /\ \A jobId \in 1..Len(jobs) : \A n \in 1..Len(jobs[jobId].responses) :
       LET result == jobs[jobId].responses[n]
       IN (result.error # Absent /\ result.error[1].message = "TokenLimitError")
            => (result.error[1].code = 400 /\ result.error[1].status = "INVALID_ARGUMENT")

====
